---- MODULE Spec2Model ----
(***************************************************************************)
(* Model of the location-intelligence request server: the in-memory store  *)
(* of request records, the key -> id map, the Submit handler               *)
(* (POST /api/input), the Fetch handler (GET /api/reply/:id) with its      *)
(* validation -> ambiguity -> analysis pipeline, and the generation        *)
(* adapter with model-candidate fallback.                                  *)
(*                                                                         *)
(* Representation.                                                         *)
(*  - Text is a sequence of one-character strings, so that trim,           *)
(*    toLowerCase and the validator's regular expressions are computed.    *)
(*  - A nullable JavaScript value is a sequence of length <= 1:            *)
(*    Null == <<>> and Some(v) == <<v>>.                                   *)
(*  - Scores are integers in tenths of a point; raw numbers coming from    *)
(*    the generation service are integers in hundredths of a point;        *)
(*    distances are integers in hundredths (raw: thousandths).             *)
(***************************************************************************)
EXTENDS Integers, Sequences, FiniteSets, TLC

Null == <<>>
Some(v) == <<v>>

-----------------------------------------------------------------------------
(* Characters and text                                                     *)

LowerSeq == <<"a","b","c","d","e","f","g","h","i","j","k","l","m","n","o","p","q","r","s","t","u","v","w","x","y","z">>
UpperSeq == <<"A","B","C","D","E","F","G","H","I","J","K","L","M","N","O","P","Q","R","S","T","U","V","W","X","Y","Z">>
DigitSeq == <<"0","1","2","3","4","5","6","7","8","9">>

Range(s) == {s[i] : i \in DOMAIN s}

LowerChars == Range(LowerSeq)
UpperChars == Range(UpperSeq)
Letters == LowerChars \cup UpperChars
Digits == Range(DigitSeq)
Vowels == {"a","e","i","o","u","A","E","I","O","U"}
WhiteSpace == {" ", "\t"}
AllowedPunct == {",", ".", "'", "-"}

\* String.prototype.toLowerCase on one character
LowerChar(c) ==
  IF c \in UpperChars
    THEN LowerSeq[CHOOSE i \in DOMAIN UpperSeq : UpperSeq[i] = c]
    ELSE c

\* String.prototype.toLowerCase
toLowerCase(s) == [i \in DOMAIN s |-> LowerChar(s[i])]

RECURSIVE TrimStart(_)
TrimStart(s) ==
  IF s # <<>> /\ Head(s) \in WhiteSpace THEN TrimStart(Tail(s)) ELSE s

RECURSIVE TrimEnd(_)
TrimEnd(s) ==
  IF s # <<>> /\ s[Len(s)] \in WhiteSpace
    THEN TrimEnd(SubSeq(s, 1, Len(s) - 1))
    ELSE s

\* String.prototype.trim
trim(s) == TrimEnd(TrimStart(s))

\* (value || ""): a missing value and the empty string both give ""
OrEmpty(v) == IF v = Null THEN <<>> ELSE v[1]

\* const normalize = (value) => (value || "").trim();
normalize(v) == trim(OrEmpty(v))

Sep == <<":", ":">>

\* Faulty variant of getInputKey: the lower-casing is forgotten
getInputKey_NoLower(city, sector) ==
  normalize(city) \o Sep \o normalize(sector)

\* `${normalize(city).toLowerCase()}::${normalize(sector).toLowerCase()}`
getInputKey(city, sector) ==
  toLowerCase(normalize(city)) \o Sep \o toLowerCase(normalize(sector))

\* crypto.createHash("sha256").update(key).digest("hex"): a deterministic,
\* collision-free digest of the key
sha256(key) == [sha256 |-> key]

-----------------------------------------------------------------------------
(* Input validator, stage 1                                                *)

\* /[0-9]{5,}/.test(text)
HasDigitRun(text) ==
  \E i \in 1..(Len(text) - 4) : \A j \in i..(i + 4) : text[j] \in Digits

\* /[^a-zA-Z0-9\s,.'-]/.test(text)
HasDisallowedChar(text) ==
  \E i \in DOMAIN text :
    text[i] \notin (Letters \cup Digits \cup WhiteSpace \cup AllowedPunct)

\* /([a-zA-Z])\1{3,}/.test(text)
HasRepeatedLetter(text) ==
  \E i \in 1..(Len(text) - 3) :
    /\ text[i] \in Letters
    /\ \A j \in (i + 1)..(i + 3) : text[j] = text[i]

\* text.replace(/[^a-zA-Z]/g, "")
LettersOf(text) == SelectSeq(text, LAMBDA c : c \in Letters)

HasVowel(letters) == \E i \in DOMAIN letters : letters[i] \in Vowels

\* Faulty variant of isObviouslyGibberish: the digit-run test is forgotten
isObviouslyGibberish_NoDigitRun(value) ==
  LET text == normalize(value)
      letters == LettersOf(text)
  IN  IF text = <<>> \/ Len(text) < 2 THEN TRUE
      ELSE IF HasDisallowedChar(text) THEN TRUE
      ELSE IF HasRepeatedLetter(text) THEN TRUE
      ELSE IF Len(letters) < 2 THEN TRUE
      ELSE IF ~HasVowel(letters) /\ Len(letters) > 4 THEN TRUE
      ELSE FALSE

\* const isObviouslyGibberish = (value) => { ... }
isObviouslyGibberish(value) ==
  LET text == normalize(value)
      letters == LettersOf(text)
  IN  IF text = <<>> \/ Len(text) < 2 THEN TRUE
      ELSE IF HasDigitRun(text) THEN TRUE
      ELSE IF HasDisallowedChar(text) THEN TRUE
      ELSE IF HasRepeatedLetter(text) THEN TRUE
      ELSE IF Len(letters) < 2 THEN TRUE
      ELSE IF ~HasVowel(letters) /\ Len(letters) > 4 THEN TRUE
      ELSE FALSE

-----------------------------------------------------------------------------
(* Analysis normalizer                                                     *)

Max(a, b) == IF a >= b THEN a ELSE b
Min(a, b) == IF a <= b THEN a ELSE b

\* Number(value) || 0 : a missing or non-numeric value counts as 0
NumberOrZero(v) == IF v = Null THEN 0 ELSE v[1]

\* clampScore = (value) => Math.max(0, Math.min(100, Number(value) || 0)),
\* on hundredths of a point
clampScore(v) == Max(0, Min(10000, NumberOrZero(v)))

\* Math.round(x * 10) / 10 for x >= 0 in hundredths; the result is in tenths
RoundToTenth(hundredths) == (hundredths + 5) \div 10

\* Math.round(clampScore(raw?.breakdown?.f ?? 0) * 10) / 10
SubScore(v) == RoundToTenth(clampScore(v))

\* Faulty variant of WeightedSum: the four minor weights are 0.1875, so that
\* the five weights sum to 1 (in ten-thousandths, scaled back to thousandths)
WeightedSum_SumsToOne(b) ==
  (2500 * b.connectivity
    + 1875 * (b.healthcare + b.education + b.retail + b.employment)) \div 100

\* connectivity * 0.25 + (healthcare + education + retail + employment) * 0.15
\* over sub-scores in tenths; the result is in thousandths of a point
WeightedSum(b) ==
  25 * b.connectivity
    + 15 * b.healthcare + 15 * b.education + 15 * b.retail + 15 * b.employment

\* Faulty variant of OverallOf: the five sub-scores are averaged unweighted
OverallOf_Unweighted(b) ==
  (Max(0, Min(100000,
     20 * (b.connectivity + b.healthcare + b.education + b.retail + b.employment)))
     + 50) \div 100

\* Math.round(clampScore(weighted) * 10) / 10, in tenths
OverallOf(b) == (Max(0, Min(100000, WeightedSum(b))) + 50) \div 100

\* const computeLabel = (overallScore) => { ... }, overallScore in tenths
computeLabel(overallScore) ==
  IF overallScore >= 900 THEN "Excellent"
  ELSE IF overallScore >= 820 THEN "High Growth"
  ELSE IF overallScore >= 740 THEN "Good"
  ELSE "Emerging"

T_metro == <<"m","e","t","r","o">>
T_hospital == <<"h","o","s","p","i","t","a","l">>
T_school == <<"s","c","h","o","o","l">>
T_mall == <<"m","a","l","l">>
T_park == <<"p","a","r","k">>

\* const normalizeCategory = (value) => { ... }
normalizeCategory(value) ==
  LET v == toLowerCase(trim(value))
  IN  IF v = T_metro THEN "Metro"
      ELSE IF v = T_hospital THEN "Hospital"
      ELSE IF v = T_school THEN "School"
      ELSE IF v = T_mall THEN "Mall"
      ELSE IF v = T_park THEN "Park"
      ELSE "Office"

GenericLandmarkNames ==
  { <<"e","x","p","r","e","s","s"," ","l","i","n","k"," ","m","e","t","r","o">>,
    <<"c","i","t","y"," ","w","e","l","l","n","e","s","s"," ","c","e","n","t","e","r">>,
    <<"g","l","o","b","a","l"," ","i","n","t","e","r","n","a","t","i","o","n","a","l"," ","s","c","h","o","o","l">>,
    <<"u","n","n","a","m","e","d"," ","i","n","f","r","a","s","t","r","u","c","t","u","r","e">> }

\* const isGenericLandmarkName = (name) => { ... }
isGenericLandmarkName(name) ==
  LET normalized == toLowerCase(trim(name))
  IN  normalized = <<>> \/ normalized \in GenericLandmarkNames

\* Collation used by String.prototype.localeCompare, restricted to the
\* characters of the model: white space < punctuation < digits < letters,
\* letters in alphabetical order without regard to case; between strings
\* equal up to case, a lower-case letter sorts before its upper-case form.
PunctSeq == <<"-", ",", ".", "'", "@">>

IndexIn(seq, c) == CHOOSE i \in DOMAIN seq : seq[i] = c

PrimaryRank(c) ==
  IF c \in WhiteSpace THEN 0
  ELSE IF c \in Range(PunctSeq) THEN IndexIn(PunctSeq, c)
  ELSE IF c \in Digits THEN 10 + IndexIn(DigitSeq, c)
  ELSE IF c \in Letters THEN 30 + IndexIn(LowerSeq, LowerChar(c))
  ELSE 100

CaseRank(c) == IF c \in UpperChars THEN 1 ELSE 0

\* lexicographic comparison of two sequences of ranks: -1, 0 or 1
RECURSIVE CompareRanks(_, _)
CompareRanks(a, b) ==
  IF a = <<>> /\ b = <<>> THEN 0
  ELSE IF a = <<>> THEN -1
  ELSE IF b = <<>> THEN 1
  ELSE IF Head(a) < Head(b) THEN -1
  ELSE IF Head(a) > Head(b) THEN 1
  ELSE CompareRanks(Tail(a), Tail(b))

localeCompare(a, b) ==
  LET primary == CompareRanks([i \in DOMAIN a |-> PrimaryRank(a[i])],
                              [i \in DOMAIN b |-> PrimaryRank(b[i])])
  IN  IF primary # 0
        THEN primary
        ELSE CompareRanks([i \in DOMAIN a |-> CaseRank(a[i])],
                          [i \in DOMAIN b |-> CaseRank(b[i])])

\* (a, b) => a.distance - b.distance || a.name.localeCompare(b.name)
CompareItems(a, b) ==
  IF a.distance # b.distance THEN a.distance - b.distance
  ELSE localeCompare(a.name, b.name)

\* insertion of x into the sorted sequence s, after the entries that do not
\* compare greater than x (Array.prototype.sort is stable)
RECURSIVE InsertSorted(_, _)
InsertSorted(s, x) ==
  IF s = <<>> THEN <<x>>
  ELSE IF CompareItems(Head(s), x) <= 0
    THEN <<Head(s)>> \o InsertSorted(Tail(s), x)
    ELSE <<x>> \o s

RECURSIVE SortItems(_)
SortItems(s) ==
  IF s = <<>> THEN <<>>
  ELSE InsertSorted(SortItems(SubSeq(s, 1, Len(s) - 1)), s[Len(s)])

MaxInfrastructure == 8

\* .map((item) => ({ name, category, distance }))
MapItem(item) ==
  [ name |-> trim(OrEmpty(item.name)),
    category |-> normalizeCategory(OrEmpty(item.category)),
    distance |-> (Max(0, NumberOrZero(item.distance)) + 5) \div 10 ]

\* (raw?.infrastructure || []).map(...).filter(...).sort(...).slice(0, 8)
InfrastructureOf(rawItems) ==
  LET mapped == [i \in DOMAIN rawItems |-> MapItem(rawItems[i])]
      kept == SelectSeq(mapped,
                LAMBDA it : it.name # <<>> /\ ~isGenericLandmarkName(it.name))
      sorted == SortItems(kept)
  IN  SubSeq(sorted, 1, Min(MaxInfrastructure, Len(sorted)))

ACCURATE_LANDMARK_DATA_UNAVAILABLE ==
  "Accurate landmark data not available for this exact location."

DefaultSummary ==
  "This Indian location demonstrates strong appreciation potential driven by connectivity, services, and employment access."

\* raw?.x || fallback for text: a missing or empty value gives the fallback
TextOr(v, fallback) == IF OrEmpty(v) = <<>> THEN fallback ELSE v[1]

\* raw?.summary || default
StringOr(v, fallback) == IF v = Null \/ v = Some("") THEN fallback ELSE v[1]

\* JSON.parse("{}") and JSON.parse("null"): every field is missing
EmptyRaw ==
  [ city |-> Null, sector |-> Null, overallScore |-> Null, label |-> Null,
    breakdown |-> [ connectivity |-> Null, healthcare |-> Null,
                    education |-> Null, retail |-> Null, employment |-> Null ],
    infrastructure |-> <<>>, summary |-> Null ]

\* const normalizeAnalysis = (raw, city, sector) => { ... }
normalizeAnalysis(raw, city, sector) ==
  LET breakdown ==
        [ connectivity |-> SubScore(raw.breakdown.connectivity),
          healthcare |-> SubScore(raw.breakdown.healthcare),
          education |-> SubScore(raw.breakdown.education),
          retail |-> SubScore(raw.breakdown.retail),
          employment |-> SubScore(raw.breakdown.employment) ]
      overallScore == OverallOf(breakdown)
      infrastructure == InfrastructureOf(raw.infrastructure)
  IN  [ city |-> TextOr(raw.city, city),
        sector |-> TextOr(raw.sector, sector),
        overallScore |-> overallScore,
        label |-> computeLabel(overallScore),
        breakdown |-> breakdown,
        infrastructure |-> infrastructure,
        summary |-> IF infrastructure = <<>>
                      THEN ACCURATE_LANDMARK_DATA_UNAVAILABLE
                      ELSE StringOr(raw.summary, DefaultSummary) ]

UnknownCity == <<"U","n","k","n","o","w","n"," ","I","n","d","i","a","n"," ","C","i","t","y">>
GeneralDistrict == <<"G","e","n","e","r","a","l"," ","D","i","s","t","r","i","c","t">>

\* const fallbackAnalysis = (city, sector) => ({ ... })
fallbackAnalysis(city, sector) ==
  [ city |-> IF city = <<>> THEN UnknownCity ELSE city,
    sector |-> IF sector = <<>> THEN GeneralDistrict ELSE sector,
    overallScore |-> 885,
    label |-> "High Growth",
    breakdown |-> [ connectivity |-> 920, healthcare |-> 850,
                    education |-> 880, retail |-> 820, employment |-> 900 ],
    infrastructure |-> <<>>,
    summary |-> ACCURATE_LANDMARK_DATA_UNAVAILABLE ]

-----------------------------------------------------------------------------
(* Bounds and inputs                                                       *)

\* number of Fetch handlers that can be in flight at once
MaxProcs == 2
\* number of records the store may hold
MaxRecords == 2

Procs == 1..MaxProcs

\* MODEL_CANDIDATES without GEMINI_MODEL set: the four built-in identifiers
NumCandidates == 4

Pune == <<"P","u","n","e">>
PuneVariant == <<" ","p","U","N","E"," ">>
Baner == <<"B","a","n","e","r">>
Digits5 == <<"1","2","3","4","5">>
Blank == <<" ", "\t">>

\* req.body.city and req.body.sector of a Submit: missing, white space only,
\* a place name, the same name in another case with surrounding white space,
\* and text the stage-1 check rejects
CityInputs == {Null, Some(Pune), Some(PuneVariant), Some(Digits5)}
SectorInputs == {Some(Blank), Some(Baner)}

-----------------------------------------------------------------------------
(* Replies of the generation service                                       *)

\* what one candidate does when called: it answers, it fails with a message
\* containing "not found" or "NOT_FOUND", or it fails with another error
CandidateOutcomes == {"ok", "nf", "err"}
OutcomeLists == [1..NumCandidates -> CandidateOutcomes]

\* response.text of a successful call: empty, not JSON, the JSON value null,
\* or a JSON object
EmptyText == [t |-> "empty"]
Garbage == [t |-> "garbage"]
JsonNull == [t |-> "null"]
Json(v) == [t |-> "json", v |-> v]

ValidationTexts ==
  { EmptyText, Garbage, JsonNull,
    Json([isValid |-> TRUE, reason |-> Some("Looks like a real place.")]),
    Json([isValid |-> FALSE, reason |-> Some("Not a place.")]),
    Json([isValid |-> FALSE, reason |-> Null]) }

MatchTexts ==
  { EmptyText, Garbage, JsonNull,
    Json([isAmbiguous |-> FALSE, isArray |-> TRUE,
          suggestedCities |-> <<"Noida", "Gurgaon">>]),
    Json([isAmbiguous |-> TRUE, isArray |-> TRUE, suggestedCities |-> <<>>]),
    Json([isAmbiguous |-> TRUE, isArray |-> TRUE, suggestedCities |-> <<"Noida">>]),
    Json([isAmbiguous |-> TRUE, isArray |-> TRUE,
          suggestedCities |-> <<"Noida", "Gurgaon">>]),
    Json([isAmbiguous |-> TRUE, isArray |-> FALSE, suggestedCities |-> <<>>]) }

MetroName == <<"B","a","n","e","r"," ","M","e","t","r","o">>
ClinicName == <<" ","R","u","b","y"," ","C","l","i","n","i","c">>
GenericName == <<"C","i","t","y"," ","W","e","l","l","n","e","s","s"," ","C","e","n","t","e","r">>

\* an analysis with sub-scores in and out of range and one missing, a
\* placeholder landmark and unsorted distances
RawSample ==
  [ city |-> Null, sector |-> Some(Baner),
    overallScore |-> Some(9900), label |-> Some("Excellent"),
    breakdown |-> [ connectivity |-> Some(25000), healthcare |-> Some(8536),
                    education |-> Null, retail |-> Some(-300),
                    employment |-> Some(9000) ],
    infrastructure |->
      << [name |-> Some(ClinicName), category |-> Some(T_hospital), distance |-> Some(2104)],
         [name |-> Some(GenericName), category |-> Some(T_hospital), distance |-> Some(500)],
         [name |-> Some(MetroName), category |-> Some(T_metro), distance |-> Some(800)] >>,
    summary |-> Some("Strong demand near the metro corridor.") ]

AnalysisTexts == { EmptyText, Garbage, Json(RawSample) }

TextsFor(stage) ==
  IF stage = "validate" THEN ValidationTexts
  ELSE IF stage = "match" THEN MatchTexts
  ELSE AnalysisTexts

-----------------------------------------------------------------------------
(* State                                                                   *)

VARIABLES
  ai,           \* whether an API key is configured (ai is non-null)
  store,        \* id -> request record
  inputKeyMap,  \* normalized input key -> id
  pc,           \* per Fetch handler: "idle", or the stage whose call it awaits
  item,         \* per Fetch handler in flight: the record it read at its start
  last,         \* the last handler step: request, service reply, response sent
  issued,       \* the ids Submit has returned, per pair of fields up to case
                \* and surrounding white space
  served        \* per id, the replies Fetch has given from a terminal record
                \* (history, kept by SpecServed only)

VARIABLES
  nz            \* one application of an analysis normalizer, and its
                \* application to its own output (SpecNormalizer only)

\* the client-side service (SpecCache only)
VARIABLES
  client,       \* the page: result kind under study, what window.localStorage
                \* does, the configured TTL, whether the module is loaded
  storage,      \* the bucket of localStorage for the result kind
  now,          \* Date.now()
  persistent,   \* the persistent*Cache map of the result kind
  memory,       \* the in-memory map of the result kind
  inflight,     \* the lookups that await the generation service
  clast         \* the last step of the client-side service

VARIABLES
  ad            \* one call of generateContentWithModelFallback, candidate by
                \* candidate (SpecAdapter only)

VARIABLES
  rq            \* the requests one call site has sent to the generation
                \* service for one record (SpecRequests only)

clientVars == << client, storage, now, persistent, memory, inflight, clast >>

vars == << ai, store, inputKeyMap, pc, item, last, issued, served, nz,
           client, storage, now, persistent, memory, inflight, clast, ad, rq >>

\* the variables of the request server, and those of the other components
serverVars == << ai, store, inputKeyMap, pc, item, last, issued, served >>
otherVars == << nz, client, storage, now, persistent, memory, inflight, clast, ad,
               rq >>

\* the client-side service is not running
ClientAtRest ==
  /\ client = Null
  /\ storage = Null
  /\ now = Null
  /\ persistent = Null
  /\ memory = << >>
  /\ inflight = {}
  /\ clast = Null

TerminalStatuses == {"invalid_input", "needs_clarification", "done"}

UnknownId == sha256(<<"?">>)

\* a handler step.  op: "submit", "fetch" (the handler up to its first call
\* of the service) or "generate" (a call of the service has come back);
\* outcome: how the step went; validation and ambiguity: what validateInput
\* and detectAmbiguity returned in this step, if they returned; response:
\* the response sent in this step, if one was sent
Event(op, p, req, stage, outcome, v, amb, response) ==
  [ op |-> op, p |-> p, req |-> req, stage |-> stage, outcome |-> outcome,
    validation |-> v, ambiguity |-> amb, response |-> response ]

Init ==
  /\ ai \in BOOLEAN
  /\ store = << >>
  /\ inputKeyMap = << >>
  /\ pc = [p \in Procs |-> "idle"]
  /\ item = [p \in Procs |-> Null]
  /\ last = Event("init", 0, Null, "-", "-", Null, Null, Null)
  /\ issued = << >>
  /\ served = << >>
  /\ nz = Null
  /\ ClientAtRest
  /\ ad = Null
  /\ rq = Null

-----------------------------------------------------------------------------
(* Submit: POST /api/input                                                 *)

\* the pair of fields up to letter case and surrounding white space
CanonPair(city, sector) ==
  << toLowerCase(trim(OrEmpty(city))), toLowerCase(trim(OrEmpty(sector))) >>

\* s with x added to the set at k
Record(s, k, x) ==
  IF k \in DOMAIN s THEN [s EXCEPT ![k] = @ \cup {x}] ELSE (k :> {x}) @@ s

NewRecord(id, city, sector) ==
  [ id |-> id, city |-> city, sector |-> sector, status |-> "pending",
    result |-> Null, error |-> Null, suggestedCities |-> <<>> ]

SubmitEvent(rawCity, rawSector, response) ==
  Event("submit", 0, Some([city |-> rawCity, sector |-> rawSector]),
        "-", "-", Null, Null, Some(response))

\* Faulty variant of Submit: a Submit of a key that exists stores a fresh
\* pending record under the existing id
Submit_Recreates(rawCity, rawSector) ==
  LET city == normalize(rawCity)
      sector == normalize(rawSector)
      key == getInputKey(Some(city), Some(sector))
      id == sha256(key)
  IN  /\ IF city = <<>> \/ sector = <<>>
           THEN /\ last' = SubmitEvent(rawCity, rawSector,
                             [code |-> 400, error |-> "Both city and sector are required."])
                /\ UNCHANGED << store, inputKeyMap, issued >>
           ELSE IF key \in DOMAIN inputKeyMap
             THEN LET existingId == inputKeyMap[key]
                  IN  /\ last' = SubmitEvent(rawCity, rawSector,
                                   [code |-> 200, id |-> existingId, status |-> "pending"])
                      /\ issued' = Record(issued, CanonPair(rawCity, rawSector), existingId)
                      /\ store' = (existingId :> NewRecord(existingId, city, sector)) @@ store
                      /\ UNCHANGED inputKeyMap
             ELSE /\ Cardinality(DOMAIN store) < MaxRecords
                  /\ inputKeyMap' = (key :> id) @@ inputKeyMap
                  /\ store' = (id :> NewRecord(id, city, sector)) @@ store
                  /\ last' = SubmitEvent(rawCity, rawSector,
                               [code |-> 200, id |-> id, status |-> "pending"])
                  /\ issued' = Record(issued, CanonPair(rawCity, rawSector), id)
      /\ UNCHANGED << ai, pc, item >>

\* Faulty variant of Submit: one missing field is accepted, as long as the
\* other one is given
Submit_EitherField(rawCity, rawSector) ==
  LET city == normalize(rawCity)
      sector == normalize(rawSector)
      key == getInputKey(Some(city), Some(sector))
      id == sha256(key)
  IN  /\ IF city = <<>> /\ sector = <<>>
           THEN /\ last' = SubmitEvent(rawCity, rawSector,
                             [code |-> 400, error |-> "Both city and sector are required."])
                /\ UNCHANGED << store, inputKeyMap, issued >>
           ELSE IF key \in DOMAIN inputKeyMap
             THEN LET existingId == inputKeyMap[key]
                  IN  /\ last' = SubmitEvent(rawCity, rawSector,
                                   [code |-> 200, id |-> existingId,
                                    status |-> IF existingId \in DOMAIN store
                                                 THEN store[existingId].status
                                                 ELSE "pending"])
                      /\ issued' = Record(issued, CanonPair(rawCity, rawSector), existingId)
                      /\ UNCHANGED << store, inputKeyMap >>
             ELSE /\ Cardinality(DOMAIN store) < MaxRecords
                  /\ inputKeyMap' = (key :> id) @@ inputKeyMap
                  /\ store' = (id :> NewRecord(id, city, sector)) @@ store
                  /\ last' = SubmitEvent(rawCity, rawSector,
                               [code |-> 200, id |-> id, status |-> "pending"])
                  /\ issued' = Record(issued, CanonPair(rawCity, rawSector), id)
      /\ UNCHANGED << ai, pc, item >>

Submit(rawCity, rawSector) ==
  LET city == normalize(rawCity)
      sector == normalize(rawSector)
      key == getInputKey(Some(city), Some(sector))
      id == sha256(key)
  IN  /\ IF city = <<>> \/ sector = <<>>
           THEN /\ last' = SubmitEvent(rawCity, rawSector,
                             [code |-> 400, error |-> "Both city and sector are required."])
                /\ UNCHANGED << store, inputKeyMap, issued >>
           ELSE IF key \in DOMAIN inputKeyMap
             THEN LET existingId == inputKeyMap[key]
                  IN  /\ last' = SubmitEvent(rawCity, rawSector,
                                   [code |-> 200, id |-> existingId,
                                    status |-> IF existingId \in DOMAIN store
                                                 THEN store[existingId].status
                                                 ELSE "pending"])
                      /\ issued' = Record(issued, CanonPair(rawCity, rawSector), existingId)
                      /\ UNCHANGED << store, inputKeyMap >>
             ELSE /\ Cardinality(DOMAIN store) < MaxRecords
                  /\ inputKeyMap' = (key :> id) @@ inputKeyMap
                  /\ store' = (id :> NewRecord(id, city, sector)) @@ store
                  /\ last' = SubmitEvent(rawCity, rawSector,
                               [code |-> 200, id |-> id, status |-> "pending"])
                  /\ issued' = Record(issued, CanonPair(rawCity, rawSector), id)
      /\ UNCHANGED << ai, pc, item >>

-----------------------------------------------------------------------------
(* Generation adapter                                                      *)

AdapterResult(ok, model, error, tried) ==
  [ok |-> ok, model |-> model, error |-> error, tried |-> tried]

\* the loop of generateContentWithModelFallback from candidate i on, outs[i]
\* being what candidate i does when called
RECURSIVE TryCandidates(_, _, _)
TryCandidates(outs, i, lastError) ==
  IF i > NumCandidates
    THEN AdapterResult(FALSE, 0,
           IF lastError = Null
             THEN Some([kind |-> "none", model |-> 0])
             ELSE lastError,
           NumCandidates)
  ELSE IF outs[i] = "ok" THEN AdapterResult(TRUE, i, Null, i)
  ELSE IF outs[i] = "nf"
    THEN TryCandidates(outs, i + 1, Some([kind |-> "nf", model |-> i]))
  ELSE AdapterResult(FALSE, 0, Some([kind |-> "err", model |-> i]), i)

\* const generateContentWithModelFallback = async (buildRequest) => { ... }
generateContentWithModelFallback(outs) == TryCandidates(outs, 1, Null)

\* what one adapter call can return or throw
AdapterResults == {generateContentWithModelFallback(outs) : outs \in OutcomeLists}

-----------------------------------------------------------------------------
(* Fetch: GET /api/reply/:id                                               *)

\* res.json({ id, status, result, error, suggestedCities }) of a record
Reply(rec) ==
  [ code |-> 200, id |-> rec.id, status |-> rec.status, result |-> rec.result,
    error |-> rec.error, suggestedCities |-> rec.suggestedCities ]

LocalInvalid ==
  [isValid |-> FALSE, reason |-> "Invalid input. Enter a valid city and locality."]
ValidationSkipped ==
  [isValid |-> TRUE, reason |-> "Validation skipped (no API key)."]

\* Faulty variant of ValidationUnavailable: a failed call blocks the input
ValidationUnavailable_Blocking ==
  [isValid |-> FALSE, reason |-> "Validation unavailable."]

\* the catch branch of validateInput
ValidationUnavailable ==
  [isValid |-> TRUE, reason |-> "Validation unavailable, proceeding."]

NotAmbiguous == [isAmbiguous |-> FALSE, isArray |-> TRUE, suggestedCities |-> <<>>]

\* JSON.parse throws, or a property of the parsed value null is read
Unusable(stage, text) ==
  text.t = "garbage" \/ (text.t = "null" /\ stage # "analysis")

\* the return value of validateInput after a call that succeeded:
\* JSON.parse(response.text || '{"isValid": true, "reason": "Valid input"}')
ParsedValidation(text) ==
  IF text.t = "empty"
    THEN [isValid |-> TRUE, reason |-> "Valid input"]
    ELSE [ isValid |-> text.v.isValid,
           reason |-> IF text.v.reason \in {Null, Some("")}
                        THEN (IF text.v.isValid THEN "Valid input." ELSE "Invalid input.")
                        ELSE text.v.reason[1] ]

\* JSON.parse(response.text || '{"isAmbiguous": false, "suggestedCities": []}')
ParsedAmbiguity(text) == IF text.t = "empty" THEN NotAmbiguous ELSE text.v

\* JSON.parse(response.text || "{}")
ParsedAnalysis(text) == IF text.t = "json" THEN text.v ELSE EmptyRaw

\* Faulty variant of IsActionable: one suggestion is enough
IsActionable_AnySuggestion(amb) ==
  amb.isAmbiguous /\ amb.isArray /\ Len(amb.suggestedCities) >= 1

\* ambiguity.isAmbiguous && Array.isArray(ambiguity.suggestedCities)
\*   && ambiguity.suggestedCities.length > 1
IsActionable(amb) ==
  amb.isAmbiguous /\ amb.isArray /\ Len(amb.suggestedCities) > 1

\* Faulty variant of InvalidUpdate: the reason is not stored
InvalidUpdate_NoError(rec, v) ==
  [rec EXCEPT !.status = "invalid_input", !.result = Null, !.error = Null]

\* { ...item, ...processed } for the three values processRequest returns
InvalidUpdate(rec, v) ==
  [rec EXCEPT !.status = "invalid_input", !.result = Null,
              !.error = Some(v.reason)]

ClarifyUpdate(rec, amb) ==
  [rec EXCEPT !.status = "needs_clarification", !.result = Null,
              !.error = Some("Input is ambiguous. Please choose a city."),
              !.suggestedCities = amb.suggestedCities]

DoneUpdate(rec, result) ==
  [rec EXCEPT !.status = "done", !.result = Some(result), !.error = Null,
              !.suggestedCities = <<>>]

\* Faulty variant of FallbackUpdate: the record is left as it was read
FallbackUpdate_StaysPending(rec) == rec

\* Faulty variant of FallbackUpdate: the error is not reported
FallbackUpdate_NoError(rec) ==
  [rec EXCEPT !.status = "done",
              !.result = Some(fallbackAnalysis(rec.city, rec.sector)),
              !.error = Null,
              !.suggestedCities = <<>>]

\* the catch branch of the handler
FallbackUpdate(rec) ==
  [rec EXCEPT !.status = "done",
              !.result = Some(fallbackAnalysis(rec.city, rec.sector)),
              !.error = Some("Model unavailable. Returned fallback response."),
              !.suggestedCities = <<>>]

\* store.set(id, updated); return res.json({...})
Finish(p, updated) ==
  /\ store' = (updated.id :> updated) @@ store
  /\ pc' = [pc EXCEPT ![p] = "idle"]
  /\ item' = [item EXCEPT ![p] = Null]

\* the first generateContent call of a stage is issued
Await(p, stage) ==
  /\ pc' = [pc EXCEPT ![p] = stage]
  /\ UNCHANGED << store, item >>

\* The handler up to its first call of the generation service.  Without a
\* configured service, and for input the stage-1 check rejects, the stages
\* await nothing but resolved promises, so the handler runs to its response
\* without another handler running in between.
FetchStart(p, id) ==
  /\ pc[p] = "idle"
  /\ UNCHANGED << ai, inputKeyMap, issued >>
  /\ IF id \notin DOMAIN store
       THEN /\ last' = Event("fetch", p, Some(id), "-", "notfound", Null, Null,
                             Some([code |-> 404, error |-> "id not found"]))
            /\ UNCHANGED << store, pc, item >>
       ELSE LET rec == store[id]
            IN  IF rec.status # "pending"
                  THEN /\ last' = Event("fetch", p, Some(id), "-", "stored",
                                        Null, Null, Some(Reply(rec)))
                       /\ UNCHANGED << store, pc, item >>
                ELSE IF isObviouslyGibberish(Some(rec.city))
                          \/ isObviouslyGibberish(Some(rec.sector))
                  THEN LET updated == InvalidUpdate(rec, LocalInvalid)
                       IN  /\ last' = Event("fetch", p, Some(id), "validate", "local",
                                            Some(LocalInvalid), Null,
                                            Some(Reply(updated)))
                           /\ Finish(p, updated)
                ELSE IF ~ai
                  THEN LET updated ==
                             DoneUpdate(rec, fallbackAnalysis(rec.city, rec.sector))
                       IN  /\ last' = Event("fetch", p, Some(id), "analysis", "noai",
                                            Some(ValidationSkipped), Some(NotAmbiguous),
                                            Some(Reply(updated)))
                           /\ Finish(p, updated)
                ELSE /\ last' = Event("fetch", p, Some(id), "validate", "await",
                                      Null, Null, Null)
                     /\ pc' = [pc EXCEPT ![p] = "validate"]
                     /\ item' = [item EXCEPT ![p] = Some(rec)]
                     /\ UNCHANGED store

\* Faulty variant of AfterValidation: valid input goes to the analysis at once
AfterValidation_SkipsResolver(p, outcome, v) ==
  LET rec == item[p][1]
  IN  IF ~v.isValid
        THEN LET updated == InvalidUpdate(rec, v)
             IN  /\ last' = Event("generate", p, Some(rec.id), "validate", outcome,
                                  Some(v), Null, Some(Reply(updated)))
                 /\ Finish(p, updated)
        ELSE /\ last' = Event("generate", p, Some(rec.id), "validate", outcome,
                              Some(v), Null, Null)
             /\ Await(p, "analysis")

\* what processRequest does once validateInput has returned v
AfterValidation(p, outcome, v) ==
  LET rec == item[p][1]
  IN  IF ~v.isValid
        THEN LET updated == InvalidUpdate(rec, v)
             IN  /\ last' = Event("generate", p, Some(rec.id), "validate", outcome,
                                  Some(v), Null, Some(Reply(updated)))
                 /\ Finish(p, updated)
        ELSE /\ last' = Event("generate", p, Some(rec.id), "validate", outcome,
                              Some(v), Null, Null)
             /\ Await(p, "match")

\* an exception leaves processRequest and reaches the catch branch of the
\* handler
Caught(p, outcome) ==
  LET rec == item[p][1]
      updated == FallbackUpdate(rec)
  IN  /\ last' = Event("generate", p, Some(rec.id), pc[p], outcome,
                       Null, Null, Some(Reply(updated)))
      /\ Finish(p, updated)

\* The adapter call of the awaited stage throws: a candidate failed with an
\* error other than model-not-found, or every candidate failed with
\* model-not-found.  The candidates are called one after the other without
\* touching the store, so the loop is one step.
AdapterFails(p, r) ==
  /\ pc[p] # "idle"
  /\ ~r.ok
  /\ UNCHANGED << ai, inputKeyMap, issued >>
  /\ IF pc[p] = "validate"
       THEN AfterValidation(p, r.error[1].kind, ValidationUnavailable)
       ELSE Caught(p, r.error[1].kind)

\* the adapter returns a response whose text the stage cannot use
BadText(p, r, text) ==
  /\ pc[p] # "idle"
  /\ r.ok
  /\ text \in TextsFor(pc[p])
  /\ Unusable(pc[p], text)
  /\ UNCHANGED << ai, inputKeyMap, issued >>
  /\ IF pc[p] = "validate"
       THEN AfterValidation(p, "badtext", ValidationUnavailable)
       ELSE Caught(p, "badtext")

\* the adapter returns a response the stage can use
GoodText(p, r, text) ==
  /\ pc[p] # "idle"
  /\ r.ok
  /\ text \in TextsFor(pc[p])
  /\ ~Unusable(pc[p], text)
  /\ UNCHANGED << ai, inputKeyMap, issued >>
  /\ LET rec == item[p][1]
     IN  IF pc[p] = "validate"
           THEN AfterValidation(p, "ok", ParsedValidation(text))
         ELSE IF pc[p] = "match"
           THEN LET amb == ParsedAmbiguity(text)
                IN  IF IsActionable(amb)
                      THEN LET updated == ClarifyUpdate(rec, amb)
                           IN  /\ last' = Event("generate", p, Some(rec.id), "match", "ok",
                                                Null, Some(amb), Some(Reply(updated)))
                               /\ Finish(p, updated)
                      ELSE /\ last' = Event("generate", p, Some(rec.id), "match", "ok",
                                            Null, Some(amb), Null)
                           /\ Await(p, "analysis")
         ELSE LET updated ==
                    DoneUpdate(rec, normalizeAnalysis(ParsedAnalysis(text),
                                                      rec.city, rec.sector))
              IN  /\ last' = Event("generate", p, Some(rec.id), "analysis", "ok",
                                   Null, Null, Some(Reply(updated)))
                  /\ Finish(p, updated)

FetchIds == DOMAIN store \cup {UnknownId}

\* one step of one handler
Step ==
  \/ \E c \in CityInputs, s \in SectorInputs : Submit(c, s)
  \/ \E p \in Procs, id \in FetchIds : FetchStart(p, id)
  \/ \E p \in Procs, r \in AdapterResults : AdapterFails(p, r)
  \/ \E p \in Procs, r \in AdapterResults : \E t \in TextsFor(pc[p]) : BadText(p, r, t)
  \/ \E p \in Procs, r \in AdapterResults : \E t \in TextsFor(pc[p]) : GoodText(p, r, t)

Next == Step /\ UNCHANGED served /\ UNCHANGED otherVars

Spec == Init /\ [][Next]_vars

\* The same steps with the history of the replies given from terminal records
NextServed ==
  /\ Step
  /\ served' = IF last'.op = "fetch" /\ last'.outcome = "stored"
                 THEN Record(served, last'.req[1], last'.response[1])
                 ELSE served
  /\ UNCHANGED otherVars

SpecServed == Init /\ [][NextServed]_vars

-----------------------------------------------------------------------------
(* Analysis normalizer of the client-side service                          *)

MIN_INFRASTRUCTURE_POINTS == 5

UnnamedInfrastructure ==
  <<"U","n","n","a","m","e","d"," ","I","n","f","r","a","s","t","r","u","c","t","u","r","e">>
T_Metro == <<"M","e","t","r","o">>
T_Hospital == <<"H","o","s","p","i","t","a","l">>
T_School == <<"S","c","h","o","o","l">>
T_Mall == <<"M","a","l","l">>
T_Park == <<"P","a","r","k">>
T_Office == <<"O","f","f","i","c","e">>
T_City == <<"C","i","t","y">>
T_Locality == <<"L","o","c","a","l","i","t","y">>

\* the five templates of ensureMinimumInfrastructure, in the order of the code
fallbacks(city, sector) ==
  << [ name |-> sector \o <<" ","M","e","t","r","o"," ","S","t","a","t","i","o","n">>,
       category |-> T_Metro, distance |-> 90 ],
     [ name |-> city \o <<" ","M","u","l","t","i","-","S","p","e","c","i","a","l","i","t","y"," ","H","o","s","p","i","t","a","l">>,
       category |-> T_Hospital, distance |-> 180 ],
     [ name |-> sector \o <<" ","P","u","b","l","i","c"," ","S","c","h","o","o","l">>,
       category |-> T_School, distance |-> 140 ],
     [ name |-> city \o <<" ","C","e","n","t","r","a","l"," ","M","a","l","l">>,
       category |-> T_Mall, distance |-> 260 ],
     [ name |-> city \o <<" ","T","e","c","h"," ","P","a","r","k">>,
       category |-> T_Office, distance |-> 320 ] >>

\* for (const fallback of fallbacks) { break / continue / push }
RECURSIVE Backfill(_, _, _)
Backfill(items, seen, rest) ==
  IF rest = <<>> \/ Len(items) >= MIN_INFRASTRUCTURE_POINTS THEN items
  ELSE LET key == toLowerCase(Head(rest).name)
       IN  IF key \in seen
             THEN Backfill(items, seen, Tail(rest))
             ELSE Backfill(Append(items, Head(rest)), seen \cup {key}, Tail(rest))

\* const ensureMinimumInfrastructure = (input, city, sector) => { ... }
ensureMinimumInfrastructure(input, city, sector) ==
  Backfill(input, {toLowerCase(input[i].name) : i \in DOMAIN input},
           fallbacks(city, sector))

\* .map((item) => ({ name, category, distance })) of locationService.ts
locationService_MapItem(it) ==
  [ name |-> TextOr(it.name, UnnamedInfrastructure),
    category |-> TextOr(it.category, T_Metro),
    distance |-> (Max(0, NumberOrZero(it.distance)) + 5) \div 10 ]

\* ensureMinimumInfrastructure((raw.infrastructure || []).map(...).sort(...)
\*   .slice(0, 8), city || "City", sector || "Locality")
locationService_InfrastructureOf(rawItems, city, sector) ==
  LET mapped == [i \in DOMAIN rawItems |-> locationService_MapItem(rawItems[i])]
      sorted == SortItems(mapped)
  IN  ensureMinimumInfrastructure(
        SubSeq(sorted, 1, Min(MaxInfrastructure, Len(sorted))),
        IF city = <<>> THEN T_City ELSE city,
        IF sector = <<>> THEN T_Locality ELSE sector)

\* const normalizeAnalysis = (raw, city, sector) => { ... } of locationService.ts
locationService_normalizeAnalysis(raw, city, sector) ==
  LET breakdown ==
        [ connectivity |-> SubScore(raw.breakdown.connectivity),
          healthcare |-> SubScore(raw.breakdown.healthcare),
          education |-> SubScore(raw.breakdown.education),
          retail |-> SubScore(raw.breakdown.retail),
          employment |-> SubScore(raw.breakdown.employment) ]
      overallScore == OverallOf(breakdown)
  IN  [ city |-> TextOr(raw.city, IF city = <<>> THEN UnknownCity ELSE city),
        sector |-> TextOr(raw.sector, IF sector = <<>> THEN GeneralDistrict ELSE sector),
        overallScore |-> overallScore,
        label |-> computeLabel(overallScore),
        breakdown |-> breakdown,
        infrastructure |->
          locationService_InfrastructureOf(raw.infrastructure, city, sector),
        summary |-> StringOr(raw.summary, DefaultSummary) ]

-----------------------------------------------------------------------------
(* The normalizers applied to raw records, and to their own output         *)

RawItem(name, category, distance) ==
  [name |-> name, category |-> category, distance |-> distance]

LandmarkName(i) == <<"L", DigitSeq[i + 1]>>
Apex == <<"A","p","e","x">>
ApexLower == <<"a","p","e","x">>
BanerMetroStationLower ==
  <<"b","a","n","e","r"," ","m","e","t","r","o"," ","s","t","a","t","i","o","n">>

\* nine landmarks with distances 4, 1, 5, 2, 6, 3, 0, 4, 1
NineItems ==
  [i \in 1..9 |->
     RawItem(Some(LandmarkName(i)), Some(T_mall), Some(1000 * ((4 * i) % 7)))]

\* raw.infrastructure: missing or empty; two landmarks and a placeholder; two
\* landmarks far away; one name in two cases at one distance; a name that is
\* a backfill name in lower case and an item without fields; five landmarks;
\* nine landmarks
NzInfrastructures ==
  { <<>>,
    RawSample.infrastructure,
    << RawItem(Some(ClinicName), Some(T_hospital), Some(5000)),
       RawItem(Some(MetroName), Some(T_metro), Some(6004)) >>,
    << RawItem(Some(Apex), Some(T_park), Some(700)),
       RawItem(Some(ApexLower), Some(T_Park), Some(700)) >>,
    << RawItem(Some(BanerMetroStationLower), Some(T_metro), Some(900)),
       RawItem(Null, Null, Null) >>,
    SubSeq(NineItems, 1, 5),
    NineItems }

\* raw.breakdown: out of range, fractional and missing values; the values of
\* the fallback analysis; small fractions; nothing
NzBreakdowns ==
  { RawSample.breakdown,
    [ connectivity |-> Some(9200), healthcare |-> Some(8500),
      education |-> Some(8800), retail |-> Some(8200), employment |-> Some(9000) ],
    [ connectivity |-> Some(15), healthcare |-> Some(34), education |-> Null,
      retail |-> Null, employment |-> Null ],
    [ connectivity |-> Some(12000), healthcare |-> Some(10000),
      education |-> Some(10000), retail |-> Some(25000), employment |-> Some(10000) ],
    EmptyRaw.breakdown }

NzOverallScores == {Null, Some(9900)}

NzTexts ==
  { [city |-> Null, sector |-> Some(Baner),
     summary |-> Some("Strong demand near the metro corridor.")],
    [city |-> Some(<<>>), sector |-> Null, summary |-> Null] }

NzRaws ==
  { [ city |-> t.city, sector |-> t.sector, overallScore |-> o,
      label |-> Some("Excellent"), breakdown |-> b, infrastructure |-> i,
      summary |-> t.summary ] :
      t \in NzTexts, o \in NzOverallScores, b \in NzBreakdowns,
      i \in NzInfrastructures }

\* the (city, sector) arguments of the normalizer
NzArguments == { <<Pune, Baner>>, << <<>>, <<>> >> }

\* "server": normalizeAnalysis of the request server;
\* "client": normalizeAnalysis of locationService.ts
NzImplementations == {"server", "client"}

NormalizerOf(impl, raw, city, sector) ==
  IF impl = "server"
    THEN normalizeAnalysis(raw, city, sector)
    ELSE locationService_normalizeAnalysis(raw, city, sector)

\* the text of a category of the closed vocabulary
CategoryChars(category) ==
  CASE category = "Metro" -> T_Metro
    [] category = "Hospital" -> T_Hospital
    [] category = "School" -> T_School
    [] category = "Mall" -> T_Mall
    [] category = "Park" -> T_Park
    [] OTHER -> T_Office

\* a result handed to the normalizer as its raw record
AsRaw(impl, out) ==
  [ city |-> Some(out.city), sector |-> Some(out.sector),
    overallScore |-> Some(10 * out.overallScore),
    label |-> Some(out.label),
    breakdown |-> [f \in DOMAIN out.breakdown |-> Some(10 * out.breakdown[f])],
    infrastructure |->
      [i \in DOMAIN out.infrastructure |->
         RawItem(Some(out.infrastructure[i].name),
                 Some(IF impl = "server"
                        THEN CategoryChars(out.infrastructure[i].category)
                        ELSE out.infrastructure[i].category),
                 Some(10 * out.infrastructure[i].distance))],
    summary |-> Some(out.summary) ]

\* the request server before its first request, without a configured service
ServerAtRest ==
  /\ ai = FALSE
  /\ store = << >>
  /\ inputKeyMap = << >>
  /\ pc = [p \in Procs |-> "idle"]
  /\ item = [p \in Procs |-> Null]
  /\ last = Event("init", 0, Null, "-", "-", Null, Null, Null)
  /\ issued = << >>
  /\ served = << >>

InitNormalizer ==
  /\ ServerAtRest
  /\ ClientAtRest
  /\ ad = Null
  /\ rq = Null
  /\ nz \in { [ impl |-> m, raw |-> r, city |-> a[1], sector |-> a[2],
                out |-> Null, again |-> Null ] :
                m \in NzImplementations, r \in NzRaws, a \in NzArguments }

\* the normalizer is applied to the raw record
Normalize ==
  /\ nz.out = Null
  /\ nz' = [nz EXCEPT !.out = Some(NormalizerOf(nz.impl, nz.raw, nz.city, nz.sector))]

\* the normalizer is applied to its own output, with the same city and sector
Renormalize ==
  /\ nz.out # Null
  /\ nz.again = Null
  /\ nz' = [nz EXCEPT !.again =
              Some(NormalizerOf(nz.impl, AsRaw(nz.impl, nz.out[1]), nz.city, nz.sector))]

NextNormalizer ==
  /\ Normalize \/ Renormalize
  /\ UNCHANGED serverVars
  /\ UNCHANGED clientVars
  /\ UNCHANGED << ad, rq >>

SpecNormalizer == InitNormalizer /\ [][NextNormalizer]_vars

-----------------------------------------------------------------------------
(* Durable cache of the client-side service: time and the persisted tier   *)

\* 24 * 60 * 60 * 1000
MsPerDay == 86400000
DEFAULT_CACHE_DAYS == 30

\* An instant or a duration in milliseconds is the pair of its whole days and
\* the milliseconds left, 0 <= ms < MsPerDay: 30 days of milliseconds exceed
\* the integers of the model checker.
Ms(d, ms) == [d |-> d, ms |-> ms]

TimePlus(a, b) ==
  IF a.ms + b.ms >= MsPerDay
    THEN Ms(a.d + b.d + 1, a.ms + b.ms - MsPerDay)
    ELSE Ms(a.d + b.d, a.ms + b.ms)

TimeMinus(a, b) ==
  IF a.ms >= b.ms
    THEN Ms(a.d - b.d, a.ms - b.ms)
    ELSE Ms(a.d - b.d - 1, a.ms + MsPerDay - b.ms)

TimeLeq(a, b) == a.d < b.d \/ (a.d = b.d /\ a.ms <= b.ms)

\* Math.max(1, Number(env.VITE_ANALYSIS_CACHE_TTL_DAYS || DEFAULT_CACHE_DAYS)),
\* for a setting that is missing or a whole number of days
CACHE_TTL_DAYS(setting) ==
  Max(1, IF setting = Null \/ setting = Some(0) THEN DEFAULT_CACHE_DAYS ELSE setting[1])

\* CACHE_TTL_DAYS * 24 * 60 * 60 * 1000
CACHE_TTL_MS(setting) == Ms(CACHE_TTL_DAYS(setting), 0)

\* `${(city || "").trim().toLowerCase()}::${(sector || "").trim().toLowerCase()}`
getCacheKey(city, sector) ==
  toLowerCase(trim(OrEmpty(city))) \o Sep \o toLowerCase(trim(OrEmpty(sector)))

\* entry?.savedAt && now - entry.savedAt <= CACHE_TTL_MS
EntryIsFresh(entry, nowT, setting) ==
  /\ entry.savedAt # Null
  /\ entry.savedAt[1] # Ms(0, 0)
  /\ TimeLeq(TimeMinus(nowT, entry.savedAt[1]), CACHE_TTL_MS(setting))

\* Faulty variant of loadPersistentMap: the age of an entry is not looked at
loadPersistentMap_NoExpiry(hasStorage, getItemThrows, raw, nowT, setting) ==
  IF ~hasStorage \/ getItemThrows \/ raw = Null \/ raw.t # "json" THEN << >>
  ELSE raw.v

\* const loadPersistentMap = (storageKey) => { ... }: hasStorage is what
\* isBrowser() returned, raw what the bucket holds.  An exception of getItem,
\* of JSON.parse (text that is not JSON) or of Object.entries (the JSON value
\* null) is caught and leaves the map empty.
loadPersistentMap(hasStorage, getItemThrows, raw, nowT, setting) ==
  IF ~hasStorage \/ getItemThrows \/ raw = Null \/ raw.t # "json" THEN << >>
  ELSE LET kept == { k \in DOMAIN raw.v : EntryIsFresh(raw.v[k], nowT, setting) }
       IN  [k \in kept |-> raw.v[k]]

\* const savePersistentMap = (storageKey, map) => { ... }: the bucket after
\* the call.  JSON.stringify(Object.fromEntries(map.entries())) read back by
\* JSON.parse gives the entries of the map: the cached values are made of
\* strings, booleans, finite numbers, arrays and plain objects only.
savePersistentMap(hasStorage, setItemThrows, map, old) ==
  IF ~hasStorage \/ setItemThrows
    THEN [threw |-> FALSE, storage |-> old]
    ELSE [threw |-> FALSE, storage |-> Json(map)]

-----------------------------------------------------------------------------
(* Durable cache of the client-side service: the three cached operations   *)

\* number of lookups that can await the generation service at once
MaxCalls == 1

\* the result kinds: validateLocationInput, getCityMatches, analyzeLocation
Kinds == {"validation", "matches", "analysis"}

\* window.localStorage: there is no window; the storage is there; reading
\* the property throws (storage denied to the document)
Windows == {"none", "ok", "blocked"}

\* env.VITE_ANALYSIS_CACHE_TTL_DAYS: not set
TtlSettings == {Null}

\* the instant the page is first loaded, and the instants Date.now() takes
T0 == Ms(20000, 0)
Instants(setting) ==
  << T0, TimePlus(T0, Ms(0, 1)),
     TimePlus(T0, TimePlus(CACHE_TTL_MS(setting), Ms(0, 1))) >>

K1 == getCacheKey(Some(Pune), Some(Baner))
K2 == getCacheKey(Some(Digits5), Some(Baner))

\* the (city, sector) arguments of the cached operations
ClientInputs == { <<Pune, Baner>>, <<PuneVariant, Baner>>, <<Digits5, Baner>> }

ClientInvalid ==
  [isValid |-> FALSE, reason |-> "Invalid input. Enter a valid city and locality."]
ClientValidationSkipped ==
  [isValid |-> TRUE, reason |-> "Validation skipped due to temporary issue."]

\* the literal analyzeLocation normalizes in its catch branch
FallbackRaw(city, sector) ==
  [ city |-> Some(IF city = <<>> THEN UnknownCity ELSE city),
    sector |-> Some(IF sector = <<>> THEN GeneralDistrict ELSE sector),
    overallScore |-> Some(8850), label |-> Some("High Growth"),
    breakdown |-> [ connectivity |-> Some(9200), healthcare |-> Some(8500),
                    education |-> Some(8800), retail |-> Some(8200),
                    employment |-> Some(9000) ],
    infrastructure |->
      << RawItem(Some(<<"E","x","p","r","e","s","s"," ","L","i","n","k"," ","M","e","t","r","o">>),
                 Some(T_Metro), Some(800)),
         RawItem(Some(GenericName), Some(T_Hospital), Some(2100)),
         RawItem(Some(<<"G","l","o","b","a","l"," ","I","n","t","e","r","n","a","t","i","o","n","a","l"," ","S","c","h","o","o","l">>),
                 Some(T_School), Some(1500)) >>,
    summary |-> Some("This Indian location demonstrates exceptional appreciation velocity driven by robust infrastructure pipeline and strategic proximity to major hubs.") ]

\* what the generation service does with one call: it throws, or it answers
\* with this text
ClientReplies(kind) ==
  {[t |-> "throws"]} \cup
    ( IF kind = "validation"
        THEN { Garbage,
               Json([isValid |-> TRUE, reason |-> Some("Looks like a real place.")]),
               Json([isValid |-> FALSE, reason |-> Null]) }
      ELSE IF kind = "matches"
        THEN { Garbage, EmptyText,
               Json([isAmbiguous |-> TRUE, isArray |-> TRUE,
                     suggestedCities |-> <<"Noida", "Gurgaon">>]) }
      ELSE { Json(RawSample) } )

\* the value the operation caches and returns once its call has ended
ClientResult(kind, reply, city, sector) ==
  IF kind = "validation"
    THEN IF reply.t \in {"throws", "garbage", "null"} THEN ClientValidationSkipped
         ELSE IF reply.t = "empty" THEN [isValid |-> TRUE, reason |-> "Valid input"]
         ELSE [ isValid |-> reply.v.isValid,
                reason |-> IF reply.v.reason \in {Null, Some("")}
                             THEN (IF reply.v.isValid
                                     THEN "Valid input"
                                     ELSE "Invalid input. Enter a valid city and locality.")
                             ELSE reply.v.reason[1] ]
  ELSE IF kind = "matches"
    THEN IF reply.t \in {"throws", "garbage"} THEN NotAmbiguous
         ELSE IF reply.t = "empty" THEN NotAmbiguous
         ELSE reply.v
  ELSE IF reply.t \in {"throws", "garbage", "null"}
         THEN locationService_normalizeAnalysis(FallbackRaw(city, sector), city, sector)
       ELSE IF reply.t = "empty"
         THEN locationService_normalizeAnalysis(EmptyRaw, city, sector)
       ELSE locationService_normalizeAnalysis(reply.v, city, sector)

\* a value some earlier page has cached
StoredValue(kind) ==
  IF kind = "validation" THEN [isValid |-> FALSE, reason |-> "Not a place."]
  ELSE IF kind = "matches"
    THEN [isAmbiguous |-> TRUE, isArray |-> TRUE, suggestedCities |-> <<"Pune", "Nagpur">>]
  ELSE locationService_normalizeAnalysis(EmptyRaw, Pune, Baner)

PersistentEntry(value, savedAt) == [value |-> value, savedAt |-> savedAt]

\* what the bucket holds when the page is first loaded: nothing; text that is
\* not JSON; the JSON value null; an entry one millisecond older than the TTL
\* and one of exactly the TTL; an entry one millisecond old and one without
\* savedAt
InitialBuckets(kind, setting) ==
  LET ttl == CACHE_TTL_MS(setting)
      v == StoredValue(kind)
  IN  { Null, Garbage, JsonNull,
        Json( (K1 :> PersistentEntry(v, Some(TimeMinus(T0, TimePlus(ttl, Ms(0, 1))))))
                @@ (K2 :> PersistentEntry(v, Some(TimeMinus(T0, ttl)))) ),
        Json( (K1 :> PersistentEntry(v, Some(TimeMinus(T0, Ms(0, 1)))))
                @@ (K2 :> PersistentEntry(v, Null)) ) }

ClientEvent(op, key, tier, returned, threw, saveFailed) ==
  [ op |-> op, key |-> key, tier |-> tier, returned |-> returned,
    threw |-> threw, saveFailed |-> saveFailed, at |-> now ]

InitCache ==
  /\ ServerAtRest
  /\ nz = Null
  /\ ad = Null
  /\ rq = Null
  /\ client \in { [ kind |-> k, window |-> w, setting |-> s, phase |-> "boot",
                    loadedAt |-> Null ] :
                    k \in Kinds, w \in Windows, s \in TtlSettings }
  /\ storage \in IF client.window = "ok"
                   THEN InitialBuckets(client.kind, client.setting)
                   ELSE {Null}
  /\ now = T0
  /\ persistent = Null
  /\ memory = << >>
  /\ inflight = {}
  /\ clast = [ op |-> "init", key |-> Null, tier |-> "-", returned |-> Null,
               threw |-> FALSE, saveFailed |-> FALSE, at |-> T0 ]

\* what isBrowser() returns, when it returns
HasStorage == client.window = "ok"

\* The module is evaluated: the persistent map of the result kind is loaded
\* and the in-memory map starts empty.  isBrowser() is called outside the try
\* block of loadPersistentMap, so an exception of the read of
\* window.localStorage leaves the module unevaluated.
Load(getItemThrows) ==
  /\ client.phase = "boot"
  /\ IF client.window = "blocked"
       THEN /\ client' = [client EXCEPT !.phase = "failed"]
            /\ persistent' = Null
            /\ clast' = ClientEvent("load", Null, "-", Null, TRUE, FALSE)
       ELSE /\ client' = [client EXCEPT !.phase = "ready", !.loadedAt = Some(now)]
            /\ persistent' = loadPersistentMap(HasStorage, getItemThrows, storage,
                                               now, client.setting)
            /\ clast' = ClientEvent("load", Null,
                                    IF getItemThrows THEN "getItem throws" ELSE "read",
                                    Null, FALSE, FALSE)
  /\ memory' = << >>
  /\ UNCHANGED << storage, now, inflight >>

\* time passes
Tick ==
  /\ \E i \in 1..(Len(Instants(client.setting)) - 1) :
       /\ now = Instants(client.setting)[i]
       /\ now' = Instants(client.setting)[i + 1]
  /\ UNCHANGED << client, storage, persistent, memory, inflight, clast >>

\* the page is closed and opened again: the module's maps are gone, the
\* bucket stays
Restart ==
  /\ client.phase = "ready"
  /\ client' = [client EXCEPT !.phase = "boot", !.loadedAt = Null]
  /\ persistent' = Null
  /\ memory' = << >>
  /\ inflight' = {}
  /\ clast' = ClientEvent("restart", Null, "-", Null, FALSE, FALSE)
  /\ UNCHANGED << storage, now >>

\* Faulty variant of Write: only the written entry is saved to the bucket
Write_SavesOnlyKey(key, value, setItemThrows) ==
  /\ memory' = (key :> value) @@ memory
  /\ persistent' = (key :> PersistentEntry(value, Some(now))) @@ persistent
  /\ storage' = savePersistentMap(HasStorage, setItemThrows,
                                  (key :> PersistentEntry(value, Some(now))),
                                  storage).storage

\* cache.set(key, value); persistent.set(key, { value, savedAt: Date.now() });
\* savePersistentMap(KEY, persistent)
Write(key, value, setItemThrows) ==
  /\ memory' = (key :> value) @@ memory
  /\ persistent' = (key :> PersistentEntry(value, Some(now))) @@ persistent
  /\ storage' = savePersistentMap(HasStorage, setItemThrows, persistent', storage).storage

\* whether the save of this write lets an exception out
WriteThrows(key, value, setItemThrows) ==
  savePersistentMap(HasStorage, setItemThrows,
                    (key :> PersistentEntry(value, Some(now))) @@ persistent,
                    storage).threw

\* Faulty variant of LookupStart: a hit in the persisted tier does not warm
\* the in-memory tier
LookupStart_NoWarm(city, sector, setItemThrows) ==
  LET key == getCacheKey(Some(city), Some(sector))
  IN  /\ client.phase = "ready"
      /\ UNCHANGED << client, now >>
      /\ IF key \in DOMAIN memory
           THEN /\ clast' = ClientEvent("lookup", Some(key), "memory",
                                        Some(memory[key]), FALSE, FALSE)
                /\ UNCHANGED << storage, persistent, memory, inflight >>
         ELSE IF key \in DOMAIN persistent
           THEN /\ clast' = ClientEvent("lookup", Some(key), "persistent",
                                        Some(persistent[key].value), FALSE, FALSE)
                /\ UNCHANGED << storage, persistent, memory, inflight >>
         ELSE IF /\ client.kind = "validation"
                 /\ isObviouslyGibberish(Some(city)) \/ isObviouslyGibberish(Some(sector))
           THEN /\ Write(key, ClientInvalid, setItemThrows)
                /\ clast' = ClientEvent("lookup", Some(key), "local",
                                        Some(ClientInvalid),
                                        WriteThrows(key, ClientInvalid, setItemThrows),
                                        setItemThrows)
                /\ UNCHANGED inflight
         ELSE /\ Cardinality(inflight) < MaxCalls
              /\ inflight' = inflight \cup {[key |-> key, city |-> city, sector |-> sector]}
              /\ clast' = ClientEvent("lookup", Some(key), "miss", Null, FALSE, FALSE)
              /\ UNCHANGED << storage, persistent, memory >>

\* A cached operation up to its return or to its call of the generation
\* service: validateLocationInput, getCityMatches or analyzeLocation.
LookupStart(city, sector, setItemThrows) ==
  LET key == getCacheKey(Some(city), Some(sector))
  IN  /\ client.phase = "ready"
      /\ UNCHANGED << client, now >>
      /\ IF key \in DOMAIN memory
           THEN /\ clast' = ClientEvent("lookup", Some(key), "memory",
                                        Some(memory[key]), FALSE, FALSE)
                /\ UNCHANGED << storage, persistent, memory, inflight >>
         ELSE IF key \in DOMAIN persistent
           THEN /\ memory' = (key :> persistent[key].value) @@ memory
                /\ clast' = ClientEvent("lookup", Some(key), "persistent",
                                        Some(persistent[key].value), FALSE, FALSE)
                /\ UNCHANGED << storage, persistent, inflight >>
         ELSE IF /\ client.kind = "validation"
                 /\ isObviouslyGibberish(Some(city)) \/ isObviouslyGibberish(Some(sector))
           THEN /\ Write(key, ClientInvalid, setItemThrows)
                /\ clast' = ClientEvent("lookup", Some(key), "local",
                                        Some(ClientInvalid),
                                        WriteThrows(key, ClientInvalid, setItemThrows),
                                        setItemThrows)
                /\ UNCHANGED inflight
         ELSE /\ Cardinality(inflight) < MaxCalls
              /\ inflight' = inflight \cup {[key |-> key, city |-> city, sector |-> sector]}
              /\ clast' = ClientEvent("lookup", Some(key), "miss", Null, FALSE, FALSE)
              /\ UNCHANGED << storage, persistent, memory >>

\* the call of the generation service ends: the operation caches its result
\* in both tiers and returns it
LookupFinish(call, reply, setItemThrows) ==
  LET result == ClientResult(client.kind, reply, call.city, call.sector)
  IN  /\ client.phase = "ready"
      /\ call \in inflight
      /\ reply \in ClientReplies(client.kind)
      /\ Write(call.key, result, setItemThrows)
      /\ inflight' = inflight \ {call}
      /\ clast' = ClientEvent("finish", Some(call.key),
                              IF reply.t \in {"throws", "garbage"} THEN "failed" ELSE "answered",
                              Some(result),
                              WriteThrows(call.key, result, setItemThrows),
                              setItemThrows)
      /\ UNCHANGED << client, now >>

StepCache ==
  \/ \E g \in BOOLEAN : Load(g)
  \/ Tick
  \/ Restart
  \/ \E a \in ClientInputs, f \in BOOLEAN : LookupStart(a[1], a[2], f)
  \/ \E call \in inflight, f \in BOOLEAN :
       \E reply \in ClientReplies(client.kind) : LookupFinish(call, reply, f)

NextCache == StepCache /\ UNCHANGED serverVars /\ UNCHANGED << nz, ad, rq >>

SpecCache == InitCache /\ [][NextCache]_vars

-----------------------------------------------------------------------------
(* Generation adapter, one candidate at a time                             *)

\* String.prototype.includes
includes(s, sub) ==
  \E i \in 1..(Len(s) - Len(sub) + 1) : SubSeq(s, i, i + Len(sub) - 1) = sub

NotFoundLower == <<"n","o","t"," ","f","o","u","n","d">>
NotFoundUpper == <<"N","O","T","_","F","O","U","N","D">>

\* String(error?.message || "")
MessageOf(error) == OrEmpty(error.message)

\* Faulty variant of isModelNotFound: only the lower-case wording counts
isModelNotFound_LowerOnly(error) == includes(MessageOf(error), NotFoundLower)

\* Faulty variant of isModelNotFound: every error counts as model-not-found
isModelNotFound_Always(error) == TRUE

\* message.includes("not found") || message.includes("NOT_FOUND")
isModelNotFound(error) ==
  \/ includes(MessageOf(error), NotFoundLower)
  \/ includes(MessageOf(error), NotFoundUpper)

\* the errors by which the generation service says that it has no such model
ModelNotFoundErrors ==
  { [message |-> Some(<<"m","o","d","e","l"," ","i","s"," ">> \o NotFoundLower)],
    [message |-> Some(<<"4","0","4"," ">> \o NotFoundUpper)] }

\* other errors of a call: the quota is used up; an error without a message
OtherErrors ==
  { [message |-> Some(<<"q","u","o","t","a">>)], [message |-> Null] }

\* the four identifiers built into MODEL_CANDIDATES
BuiltInCandidates ==
  << "gemini-flash-latest", "gemini-2.5-flash", "gemini-2.0-flash",
     "gemini-1.5-flash-latest" >>

\* process.env.GEMINI_MODEL: not set, empty, a model of its own, or one of
\* the built-in identifiers
GeminiModels == {Null, Some(""), Some("gemini-2.5-pro"), Some("gemini-2.0-flash")}

\* [process.env.GEMINI_MODEL, ...].filter(Boolean)
MODEL_CANDIDATES(geminiModel) ==
  IF geminiModel = Null \/ geminiModel = Some("")
    THEN BuiltInCandidates
    ELSE << geminiModel[1] >> \o BuiltInCandidates

\* what a candidate does when generateContent is called with it
CandidateReplies ==
  { [t |-> "ok", text |-> x] : x \in {EmptyText, Garbage} }
    \cup { [t |-> "throws", error |-> e] : e \in ModelNotFoundErrors \cup OtherErrors }

Returned(response) == [returned |-> TRUE, response |-> response]
Raised(error) == [returned |-> FALSE, error |-> error]

InitAdapter ==
  /\ ServerAtRest
  /\ ClientAtRest
  /\ nz = Null
  /\ rq = Null
  /\ \E g \in GeminiModels :
       \E plan \in [1..Len(MODEL_CANDIDATES(g)) -> CandidateReplies] :
         ad = [ geminiModel |-> g, plan |-> plan, i |-> 0, lastError |-> Null,
                calls |-> << >>, result |-> Null ]

\* generateContentWithModelFallback is called: up to the first generateContent
\* call it awaits.  MODEL_CANDIDATES holds the four built-in identifiers at
\* least, so there is a first call.
Invoke ==
  LET candidates == MODEL_CANDIDATES(ad.geminiModel)
  IN  /\ ad.i = 0
      /\ ad.result = Null
      /\ ad' = [ad EXCEPT !.i = 1, !.calls = << candidates[1] >>]

\* Faulty variant of Settle: after a model-not-found error the same candidate
\* is called again
Settle_Retries ==
  LET candidates == MODEL_CANDIDATES(ad.geminiModel)
      model == candidates[ad.i]
      reply == ad.plan[ad.i]
  IN  /\ ad.i >= 1
      /\ ad.result = Null
      /\ Len(ad.calls) <= Len(candidates)
      /\ IF reply.t = "ok"
           THEN ad' = [ad EXCEPT
                         !.result = Some(Returned([model |-> model, text |-> reply.text]))]
         ELSE IF ~isModelNotFound(reply.error)
           THEN ad' = [ad EXCEPT !.result = Some(Raised(reply.error))]
         ELSE ad' = [ad EXCEPT !.lastError = Some(reply.error),
                               !.calls = Append(ad.calls, model)]

\* the awaited generateContent call ends: the adapter returns its response,
\* rethrows its error, or goes on to its next generateContent call; after
\* the last candidate it throws lastError
Settle ==
  LET candidates == MODEL_CANDIDATES(ad.geminiModel)
      model == candidates[ad.i]
      reply == ad.plan[ad.i]
  IN  /\ ad.i >= 1
      /\ ad.result = Null
      /\ IF reply.t = "ok"
           THEN ad' = [ad EXCEPT
                         !.result = Some(Returned([model |-> model, text |-> reply.text]))]
         ELSE IF ~isModelNotFound(reply.error)
           THEN ad' = [ad EXCEPT !.result = Some(Raised(reply.error))]
         ELSE IF ad.i < Len(candidates)
           THEN ad' = [ad EXCEPT !.lastError = Some(reply.error),
                                 !.i = ad.i + 1,
                                 !.calls = Append(ad.calls, candidates[ad.i + 1])]
         ELSE ad' = [ad EXCEPT !.lastError = Some(reply.error),
                               !.result = Some(Raised(reply.error))]

StepAdapter == Invoke \/ Settle

NextAdapter ==
  /\ StepAdapter
  /\ UNCHANGED serverVars
  /\ UNCHANGED clientVars
  /\ UNCHANGED << nz, rq >>

SpecAdapter == InitAdapter /\ [][NextAdapter]_vars

\* The request server with the loop of the adapter as one step, or one call
\* of the adapter followed candidate by candidate: the handlers of the server
\* run while no stepwise call is followed.
InitServerOrAdapter == Init \/ InitAdapter

NextServerOrAdapter ==
  \/ ad = Null /\ Next
  \/ ad # Null /\ NextAdapter

SpecServerOrAdapter == InitServerOrAdapter /\ [][NextServerOrAdapter]_vars

-----------------------------------------------------------------------------
(* Requests sent to the generation service                                 *)

\* String.prototype.charCodeAt for the characters of the model
CharCode(c) ==
  IF c \in LowerChars THEN 96 + IndexIn(LowerSeq, c)
  ELSE IF c \in UpperChars THEN 64 + IndexIn(UpperSeq, c)
  ELSE IF c \in Digits THEN 47 + IndexIn(DigitSeq, c)
  ELSE IF c = ":" THEN 58
  ELSE IF c = " " THEN 32
  ELSE IF c = "\t" THEN 9
  ELSE IF c = "," THEN 44
  ELSE IF c = "." THEN 46
  ELSE IF c = "'" THEN 39
  ELSE IF c = "-" THEN 45
  ELSE 63

\* the bit of weight w of a ^ b
XorBit(a, b, w) == ((((a \div w) % 2) + ((b \div w) % 2)) % 2) * w

\* a ^ b for numbers below 256
Xor8(a, b) ==
  XorBit(a, b, 1) + XorBit(a, b, 2) + XorBit(a, b, 4) + XorBit(a, b, 8)
    + XorBit(a, b, 16) + XorBit(a, b, 32) + XorBit(a, b, 64) + XorBit(a, b, 128)

\* A 32-bit word is the pair of its 16-bit halves.  2166136261 = 0x811C9DC5
Word(hi, lo) == [hi |-> hi, lo |-> lo]
FnvOffset == Word(33052, 40389)

\* hash ^= code; hash = Math.imul(hash, 16777619), on the 32 bits of hash,
\* for a character code below 256: 16777619 = 2^24 + 403
FnvStep(hash, code) ==
  LET lo == (hash.lo \div 256) * 256 + Xor8(hash.lo % 256, code)
      low == lo * 403
  IN  Word( (hash.hi * 403 + (low \div 65536) + (lo % 256) * 256) % 65536,
            low % 65536 )

\* the loop of stableSeed over the first n characters of input
RECURSIVE Fnv1a(_, _)
Fnv1a(input, n) ==
  IF n = 0 THEN FnvOffset
  ELSE FnvStep(Fnv1a(input, n - 1), CharCode(input[n]))

\* (hash >>> 0) % 2147483647, for hash below 2^32
ModMersenne31(hash) ==
  IF hash.hi < 32768
    THEN (IF hash.hi = 32767 /\ hash.lo = 65535 THEN 0 ELSE hash.hi * 65536 + hash.lo)
  ELSE IF hash.hi = 65535 /\ hash.lo = 65535 THEN 1
  ELSE (hash.hi - 32768) * 65536 + hash.lo + 1

\* const stableSeed = (input) => { ... }
stableSeed(input) == ModMersenne31(Fnv1a(input, Len(input)))

P_validate == <<"v","a","l","i","d","a","t","e">>
P_match == <<"m","a","t","c","h">>
P_analysis == <<"a","n","a","l","y","s","i","s">>

\* the call sites: validateInput, detectAmbiguity and analyze of the request
\* server, and GET /reply/:id of src/server/server.js
CallSites ==
  { [file |-> "part_000", purpose |-> P_validate],
    [file |-> "part_000", purpose |-> P_match],
    [file |-> "part_000", purpose |-> P_analysis],
    [file |-> "server.js", purpose |-> P_analysis] }

\* the models a call site passes: the candidates of the adapter, or the one
\* model written at the call site
ModelsOf(site) ==
  IF site.file = "part_000" THEN Range(BuiltInCandidates) ELSE {"gemini-2.5-flash"}

\* the model and the sampling configuration of the request the call site
\* builds for a record of this city and sector
RequestOf(site, model, city, sector) ==
  IF site.file = "part_000"
    THEN [ model |-> model, temperature |-> Some(0), topP |-> Some(0),
           topK |-> Some(1), candidateCount |-> Some(1),
           seed |-> Some(stableSeed(site.purpose \o Sep
                                      \o getInputKey(Some(city), Some(sector)))) ]
    ELSE [ model |-> model, temperature |-> Some(0), topP |-> Null,
           topK |-> Null, candidateCount |-> Null, seed |-> Null ]

\* most requests followed for one record
MaxSent == 2

BanerUpper == <<"B","A","N","E","R">>

\* the submitted text of a record
RequestCities == {Pune, PuneVariant, Digits5}
RequestSectors == {Baner, BanerUpper}

\* the record holds the submitted fields trimmed
InitRequests ==
  /\ ServerAtRest
  /\ ClientAtRest
  /\ nz = Null
  /\ ad = Null
  /\ \E site \in CallSites, c \in RequestCities, x \in RequestSectors :
       rq = [ site |-> site, city |-> normalize(Some(c)), sector |-> normalize(Some(x)),
              sent |-> << >> ]

\* the call site sends one more request for the record, for this model
Send(model) ==
  /\ Len(rq.sent) < MaxSent
  /\ model \in ModelsOf(rq.site)
  /\ rq' = [rq EXCEPT !.sent = Append(rq.sent, RequestOf(rq.site, model, rq.city, rq.sector))]

NextRequests ==
  /\ \E model \in ModelsOf(rq.site) : Send(model)
  /\ UNCHANGED serverVars
  /\ UNCHANGED clientVars
  /\ UNCHANGED << nz, ad >>

SpecRequests == InitRequests /\ [][NextRequests]_vars

-----------------------------------------------------------------------------
(* Properties                                                             *)

Failed(outcome) == outcome \in {"nf", "err"}
Faulted(outcome) == outcome \in {"nf", "err", "badtext"}

\* the last step was a step of a Fetch handler that sent a record
SentRecord ==
  /\ last.op \in {"fetch", "generate"}
  /\ last.response # Null
  /\ last.response[1].code = 200

\* C1: any two Submit calls whose (city, sector) differ only by letter case or
\* by surrounding white space return the same id, in any order and whatever
\* happens in between: per pair of fields up to case and white space, Submit
\* has returned at most one id.
C1_SameIdForSameKey ==
  \A k \in DOMAIN issued : Cardinality(issued[k]) <= 1

\* C1 witness: a Submit of " pUNE " has been answered with the id of the
\* record created for "Pune".
C1_Witness ==
  /\ last.op = "submit"
  /\ last.req[1].city = Some(PuneVariant)
  /\ last.response[1].code = 200
  /\ store[last.response[1].id].city = Pune

\* C2: once a record has reached a terminal status, its status, result,
\* error and suggestedCities never change again, under every interleaving of
\* Submit and Fetch, two Fetch handlers that both started on the pending
\* record included.
C2_TerminalNeverChanges ==
  [][\A id \in DOMAIN store :
       store[id].status \in TerminalStatuses =>
         /\ store'[id].status = store[id].status
         /\ store'[id].result = store[id].result
         /\ store'[id].error = store[id].error
         /\ store'[id].suggestedCities = store[id].suggestedCities]_vars

\* C3: a Fetch of an id whose stored status is terminal returns exactly the
\* stored record, calls no generation service and leaves the store as it is;
\* hence all Fetches answered from the terminal record of one id return the
\* same record.
C3_StoredFetchIdempotent ==
  /\ (last.op = "fetch" /\ last.outcome = "stored") =>
       /\ last.response = Some(Reply(store[last.req[1]]))
       /\ pc[last.p] = "idle"
  /\ \A id \in DOMAIN served : Cardinality(served[id]) <= 1

\* C4: every Fetch of an id present in the store that sends a response sends
\* a terminal status and leaves the stored record terminal, whatever the
\* external calls did.
C4_FetchAlwaysTerminal ==
  SentRecord =>
    /\ last.response[1].status \in TerminalStatuses
    /\ store[last.req[1]].status \in TerminalStatuses

\* C4 witness: a Fetch whose analysis call failed on every candidate with
\* model-not-found has sent its response.
C4_Witness ==
  /\ SentRecord
  /\ last.stage = "analysis"
  /\ last.outcome = "nf"

\* C5: when the external call of the ambiguity resolver fails, the
\* orchestrator treats the input as not ambiguous and goes on to the analysis
\* stage: the handler awaits the analysis call and has not yet responded.
C5_ResolverFailureFailsOpen ==
  (last.op = "generate" /\ last.stage = "match" /\ Failed(last.outcome)) =>
    /\ pc[last.p] = "analysis"
    /\ last.response = Null

\* the weighted function: 0.25*connectivity + 0.15*(healthcare + education +
\* retail + employment), clamped to [0,100] and rounded to one decimal
\* (sub-scores and score in tenths)
WeightedScore(b) ==
  LET thousandths == 25 * b.connectivity
                       + 15 * (b.healthcare + b.education + b.retail + b.employment)
      clamped == IF thousandths < 0 THEN 0
                 ELSE IF thousandths > 100000 THEN 100000 ELSE thousandths
  IN  (clamped + 50) \div 100

ThresholdLabel(score) ==
  CASE score >= 900 -> "Excellent"
    [] score >= 820 /\ score < 900 -> "High Growth"
    [] score >= 740 /\ score < 820 -> "Good"
    [] OTHER -> "Emerging"

\* C6: for every record with status done, result.overallScore is the
\* weighted function of result.breakdown and result.label is the threshold
\* label of result.overallScore, on the analysis path, the no-service path
\* and the fault-fallback path alike.
C6_DoneScoreIsWeighted ==
  \A id \in DOMAIN store :
    store[id].status = "done" =>
      LET r == store[id].result[1]
      IN  /\ r.overallScore = WeightedScore(r.breakdown)
          /\ r.label = ThresholdLabel(r.overallScore)

\* C7: if the analysis stage raises a fault (candidates exhausted, another
\* service error, unparsable text), the Fetch stores and returns status done
\* with the fallback analysis of the record's city and sector and a non-null
\* error.
C7_AnalysisFaultGivesFallback ==
  (last.op = "generate" /\ last.stage = "analysis" /\ Faulted(last.outcome)) =>
    /\ last.response # Null
    /\ LET rec == store[last.req[1]]
           r == last.response[1]
       IN  /\ r = Reply(rec)
           /\ r.status = "done"
           /\ r.result = Some(fallbackAnalysis(rec.city, rec.sector))
           /\ r.error # Null
           /\ r.suggestedCities = <<>>

\* C7 witness: the analysis call returned text that is not JSON and the
\* handler has responded.
C7_Witness ==
  /\ last.op = "generate"
  /\ last.stage = "analysis"
  /\ last.outcome = "badtext"
  /\ last.response # Null

\* the stage-1 conditions on one field
Stage1Fails(text) ==
  \/ Len(trim(text)) < 2
  \/ HasDigitRun(text)
  \/ HasDisallowedChar(trim(text))
  \/ HasRepeatedLetter(text)
  \/ (Len(LettersOf(text)) > 4 /\ ~HasVowel(LettersOf(text)))

Stage1Samples ==
  { <<>>, Blank, <<"x">>, <<" ", "x", " ">>, Digits5,
    <<"a","s","d","k","j","a","s","d","k","j","1","2","3","4","5">>,
    <<"a","@","b">>, <<"z","z","z","z">>, <<"b","c","d","f","g">>,
    <<"b","c","d"," ","f","g">>, <<"r","h","y","t","h","m">>,
    Pune, PuneVariant, Baner }

\* C8: if city or sector fails the stage-1 check, the validator returns
\* isValid = false and the Fetch ends in invalid_input without any call of
\* the generation service, whether the service is configured or not: the
\* check rejects every such text, no handler awaits a call for such a record,
\* and the Fetch that processes such a record responds at once.
C8_Stage1RejectsLocally ==
  /\ \A t \in Stage1Samples : Stage1Fails(t) => isObviouslyGibberish(Some(t))
  /\ \A p \in Procs :
       pc[p] # "idle" =>
         ~Stage1Fails(item[p][1].city) /\ ~Stage1Fails(item[p][1].sector)
  /\ ( /\ last.op = "fetch"
       /\ last.outcome \notin {"notfound", "stored"}
       /\ \/ Stage1Fails(store[last.req[1]].city)
          \/ Stage1Fails(store[last.req[1]].sector) ) =>
       /\ last.outcome = "local"
       /\ last.validation # Null /\ ~last.validation[1].isValid
       /\ last.response # Null
       /\ last.response[1].status = "invalid_input"
       /\ pc[last.p] = "idle"

\* C8 witness: with the service configured, a Fetch of a record whose city is
\* a run of five digits has ended in invalid_input.
C8_Witness ==
  /\ ai
  /\ last.op = "fetch"
  /\ last.outcome = "local"
  /\ store[last.req[1]].city = Digits5
  /\ last.response[1].status = "invalid_input"

\* C9: when the input passes stage 1 and the validator's external call fails
\* (any error, or unparsable text), the validator returns isValid = true and
\* the orchestrator goes on to the ambiguity stage; the failure does not make
\* the record invalid_input.
C9_ValidatorFailsOpen ==
  (last.op = "generate" /\ last.stage = "validate" /\ Faulted(last.outcome)) =>
    /\ last.validation # Null
    /\ last.validation[1].isValid
    /\ pc[last.p] = "match"
    /\ last.response = Null

\* C9 witness: the validation call failed with an error other than
\* model-not-found and the handler awaits the ambiguity call.
C9_Witness ==
  /\ last.op = "generate"
  /\ last.stage = "validate"
  /\ last.outcome = "err"
  /\ pc[last.p] = "match"

\* the resolver's answer is ambiguous with more than one suggestion
Actionable(amb) ==
  amb # Null /\ amb[1].isAmbiguous /\ amb[1].isArray
    /\ Len(amb[1].suggestedCities) > 1

\* C10: a record ends in needs_clarification if and only if validation passed
\* and the resolver returned isAmbiguous = true with more than one suggested
\* city; with isAmbiguous = true and zero or one suggestion the orchestrator
\* goes on to analysis, and the record then ends done.
C10_ClarificationIffActionable ==
  /\ (SentRecord /\ last.outcome # "stored") =>
       ( last.response[1].status = "needs_clarification"
           <=> (last.stage = "match" /\ last.outcome = "ok" /\ Actionable(last.ambiguity)) )
  /\ \A p \in Procs : pc[p] \in {"match", "analysis"} /\ last.p = p /\ last.stage = "validate" =>
       last.validation # Null /\ last.validation[1].isValid
  /\ ( /\ last.op = "generate" /\ last.stage = "match" /\ last.outcome = "ok"
       /\ last.ambiguity[1].isAmbiguous
       /\ last.ambiguity[1].isArray
       /\ Len(last.ambiguity[1].suggestedCities) <= 1 ) =>
       /\ pc[last.p] = "analysis"
       /\ last.response = Null
  /\ (SentRecord /\ last.stage = "analysis") => last.response[1].status = "done"

\* C10 witness: the resolver answered isAmbiguous = true with one suggestion
\* and the handler awaits the analysis call.
C10_Witness ==
  /\ last.op = "generate"
  /\ last.stage = "match"
  /\ last.ambiguity # Null
  /\ last.ambiguity[1].isAmbiguous
  /\ Len(last.ambiguity[1].suggestedCities) = 1
  /\ pc[last.p] = "analysis"

\* the lookup key of a pair of texts: each trimmed and lower-cased
NormalizedKey(city, sector) ==
  toLowerCase(trim(city)) \o <<":", ":">> \o toLowerCase(trim(sector))

\* the store holds one record per key of the key-to-id map and no other, and
\* no two records have the same normalized key
OneRecordPerKey ==
  /\ \A k \in DOMAIN inputKeyMap :
       /\ inputKeyMap[k] \in DOMAIN store
       /\ NormalizedKey(store[inputKeyMap[k]].city, store[inputKeyMap[k]].sector) = k
  /\ \A id \in DOMAIN store :
       /\ store[id].id = id
       /\ NormalizedKey(store[id].city, store[id].sector) \in DOMAIN inputKeyMap
       /\ inputKeyMap[NormalizedKey(store[id].city, store[id].sector)] = id
  /\ \A a, b \in DOMAIN store :
       NormalizedKey(store[a].city, store[a].sector)
         = NormalizedKey(store[b].city, store[b].sector) => a = b

\* the step is a Submit whose two fields are present and whose key exists
SubmitOfExistingKey ==
  /\ last'.op = "submit"
  /\ trim(OrEmpty(last'.req[1].city)) # <<>>
  /\ trim(OrEmpty(last'.req[1].sector)) # <<>>
  /\ NormalizedKey(OrEmpty(last'.req[1].city), OrEmpty(last'.req[1].sector))
       \in DOMAIN inputKeyMap

FieldMissing(v) == v = Null \/ \A i \in DOMAIN v[1] : v[1][i] \in WhiteSpace

C13_NormalizerIdempotent ==
  nz.again # Null => nz.again = nz.out

NonDecreasing(items) ==
  \A i \in 1..(Len(items) - 1) : items[i].distance <= items[i + 1].distance

\* C14: for every raw record, the infrastructure list the normalizer returns
\* has at most 8 entries and its distances are non-decreasing from the first
\* entry to the last, also when backfill entries have been added.
C14_InfrastructureBoundedAndSorted ==
  nz.out # Null =>
    /\ Len(nz.out[1].infrastructure) <= 8
    /\ NonDecreasing(nz.out[1].infrastructure)

\* the raw items that remain after filtering: the trimmed name is neither
\* empty nor one of the stock placeholder names
RemainingItems(rawItems) ==
  SelectSeq(rawItems,
    LAMBDA it : /\ trim(OrEmpty(it.name)) # <<>>
                /\ toLowerCase(trim(OrEmpty(it.name))) \notin GenericLandmarkNames)

NoDuplicateNames(items) ==
  \A i, j \in DOMAIN items :
    toLowerCase(items[i].name) = toLowerCase(items[j].name) => i = j

\* C15: when fewer than 5 infrastructure items remain after filtering, the
\* normalizer's output has at least 5 items and no two of them have the same
\* name when compared without regard to case.
C15_BackfilledToFive ==
  (nz.out # Null /\ Len(RemainingItems(nz.raw.infrastructure)) < 5) =>
    /\ Len(nz.out[1].infrastructure) >= 5
    /\ NoDuplicateNames(nz.out[1].infrastructure)

\* a raw sub-score clamped to [0,100] (missing: 0) and rounded to one decimal,
\* in tenths
ClampedSubScore(v) ==
  LET x == IF v = Null THEN 0 ELSE v[1]
      c == IF x < 0 THEN 0 ELSE IF x > 10000 THEN 10000 ELSE x
  IN  (c + 5) \div 10

ClampedBreakdown(b) == [f \in DOMAIN b |-> ClampedSubScore(b[f])]

AgeAt(entry, nowT) == TimeMinus(nowT, entry.savedAt[1])

\* the bucket held a JSON object and the load read it
LoadedFromBucket ==
  /\ client.phase = "ready"
  /\ clast.op = "load"
  /\ clast.tier = "read"
  /\ storage # Null
  /\ storage.t = "json"

\* just after the load: the entries of the bucket that have a savedAt are in
\* the loaded map exactly when their age was at most the TTL
LoadedExactlyTheFresh ==
  LoadedFromBucket =>
    \A k \in DOMAIN storage.v :
      storage.v[k].savedAt # Null =>
        IF TimeLeq(AgeAt(storage.v[k], clast.at), CACHE_TTL_MS(client.setting))
          THEN k \in DOMAIN persistent /\ persistent[k] = storage.v[k]
          ELSE k \notin DOMAIN persistent

\* the first lookup after the load, of a key of the bucket that has a savedAt
FirstLookupAfterLoad ==
  /\ LoadedFromBucket
  /\ clast'.op = "lookup"
  /\ clast'.key[1] \in DOMAIN storage.v
  /\ storage.v[clast'.key[1]].savedAt # Null

\* C17: when the persisted tier is loaded, an entry with now - savedAt greater
\* than the TTL is not placed in the loaded map and a lookup of its key is a
\* miss, while an entry with now - savedAt less than or equal to the TTL is
\* loaded and a lookup of its key returns its value from the persisted tier.
C17_ExpiredEntriesInvisibleOnLoad ==
  /\ []LoadedExactlyTheFresh
  /\ [][ FirstLookupAfterLoad =>
           LET k == clast'.key[1]
               entry == storage.v[k]
           IN  IF TimeLeq(AgeAt(entry, clast.at), CACHE_TTL_MS(client.setting))
                 THEN /\ clast'.tier = "persistent"
                      /\ clast'.returned = Some(entry.value)
                 ELSE clast'.tier \in {"miss", "local"} ]_vars

\* the entry saved at now - TTL - 1ms was looked up and missed, next to the
\* entry saved at now - TTL, which was loaded
C17_Witness ==
  /\ client.phase = "ready"
  /\ clast.op = "lookup" /\ clast.key = Some(K1) /\ clast.tier = "miss"
  /\ storage # Null /\ storage.t = "json"
  /\ K1 \in DOMAIN storage.v /\ K2 \in DOMAIN storage.v
  /\ storage.v[K1].savedAt # Null /\ storage.v[K2].savedAt # Null
  /\ AgeAt(storage.v[K1], client.loadedAt[1])
       = TimePlus(CACHE_TTL_MS(client.setting), Ms(0, 1))
  /\ AgeAt(storage.v[K2], client.loadedAt[1]) = CACHE_TTL_MS(client.setting)
  /\ K1 \notin DOMAIN persistent
  /\ K2 \in DOMAIN persistent

\* the load met a failure of the persisted tier: the storage cannot be
\* reached, getItem threw, or the bucket holds something that is no map
LoadMetFailure ==
  /\ clast.op = "load"
  /\ \/ client.window = "blocked"
     \/ clast.tier = "getItem throws"
     \/ storage \in {Garbage, JsonNull}

\* C18: a failure of the persisted tier never propagates to the caller: if
\* reading storage throws or its contents are corrupt, the load yields an
\* empty map (every lookup is a miss); if writing storage throws, the cache
\* operation still returns its result and the in-memory tier still holds the
\* value for the key.
C18_PersistedTierFailuresContained ==
  /\ ~clast.threw
  /\ LoadMetFailure =>
       /\ client.phase = "ready"
       /\ persistent = << >>
       /\ memory = << >>
  /\ (clast.op \in {"lookup", "finish"} /\ clast.saveFailed) =>
       /\ clast.returned # Null
       /\ clast.key[1] \in DOMAIN memory
       /\ memory[clast.key[1]] = clast.returned[1]

\* candidate b answers when called, and every candidate before it fails with
\* one of the service's model-not-found errors
SucceedsAfterNotFound(b) ==
  /\ b \in DOMAIN ad.plan
  /\ ad.plan[b].t = "ok"
  /\ \A j \in 1..(b - 1) :
       /\ ad.plan[j].t = "throws"
       /\ ad.plan[j].error \in ModelNotFoundErrors

\* what a reply is to the loop of the adapter taken as one step
OutcomeOf(reply) ==
  IF reply.t = "ok" THEN "ok"
  ELSE IF isModelNotFound(reply.error) THEN "nf"
  ELSE "err"

\* the loop taken as one step, as the handlers use it, ends as the loop taken
\* candidate by candidate does
AgreesWithOneStep ==
  (ad.result # Null /\ Len(MODEL_CANDIDATES(ad.geminiModel)) = NumCandidates) =>
    LET r == generateContentWithModelFallback([j \in 1..NumCandidates |->
                                                 OutcomeOf(ad.plan[j])])
    IN  /\ r.ok = ad.result[1].returned
        /\ r.tried = Len(ad.calls)
        /\ r.ok => MODEL_CANDIDATES(ad.geminiModel)[r.model]
                     = ad.result[1].response.model

\* C19: for one adapter call over the ordered candidate list, if every
\* candidate before B fails with a model-not-found error and B succeeds, the
\* adapter returns B's response, raises no error, and invokes no candidate
\* after B.
C19_FallsBackToFirstWorkingCandidate ==
  /\ ad # Null =>
       \A b \in 1..Len(MODEL_CANDIDATES(ad.geminiModel)) :
         SucceedsAfterNotFound(b) =>
           /\ Len(ad.calls) <= b
           /\ ad.calls = SubSeq(MODEL_CANDIDATES(ad.geminiModel), 1, Len(ad.calls))
           /\ ad.result # Null =>
                /\ ad.result = Some(Returned([ model |-> MODEL_CANDIDATES(ad.geminiModel)[b],
                                               text |-> ad.plan[b].text ]))
                /\ Len(ad.calls) = b
  /\ ad # Null => AgreesWithOneStep

\* the third candidate answered after two model-not-found errors of either
\* wording, and a later candidate would have answered as well
C19_Witness ==
  /\ ad # Null
  /\ SucceedsAfterNotFound(3)
  /\ ad.plan[1].error # ad.plan[2].error
  /\ ad.plan[4].t = "ok"
  /\ ad.result # Null
  /\ ad.result[1].returned
  /\ Len(ad.calls) = 3

\* the moves of a handler between the calls it awaits: one attempt goes from
\* the validator's call to the resolver's to the analysis call, and may end
\* after each
StageMoves ==
  { <<"idle", "validate">>, <<"validate", "match">>, <<"match", "analysis">>,
    <<"validate", "idle">>, <<"match", "idle">>, <<"analysis", "idle">> }

\* in this step handler p issues the external call of the stage
IssuesCall(p, stage) == pc[p] # stage /\ pc'[p] = stage

\* in this step the attempt of handler p ends and writes the status
AttemptEndsWith(p, status) ==
  /\ last'.op \in {"fetch", "generate"}
  /\ last'.p = p
  /\ last'.outcome \notin {"stored", "notfound", "await"}
  /\ last'.response # Null
  /\ last'.response[1].status = status
  /\ store'[last'.req[1]].status = status

\* C20: within one processing attempt the stages run in the fixed order
\* validator, ambiguity resolver, analysis: the resolver's external call is
\* made only after the validator returned isValid=true, and the analysis call
\* only after the resolver returned a non-actionable answer; an attempt that
\* ends the record invalid_input has made no resolver or analysis call, and
\* one that ends it needs_clarification has made no analysis call.
C20_StagesRunInOrder ==
  [][ \A p \in Procs :
        /\ pc'[p] # pc[p] => << pc[p], pc'[p] >> \in StageMoves
        /\ IssuesCall(p, "match") =>
             /\ pc[p] = "validate"
             /\ last'.p = p /\ last'.stage = "validate"
             /\ last'.validation # Null
             /\ last'.validation[1].isValid
        /\ IssuesCall(p, "analysis") =>
             /\ pc[p] = "match"
             /\ last'.p = p /\ last'.stage = "match"
             /\ last'.ambiguity # Null
             /\ ~ ( /\ last'.ambiguity[1].isAmbiguous
                    /\ last'.ambiguity[1].isArray
                    /\ Len(last'.ambiguity[1].suggestedCities) > 1 )
        /\ AttemptEndsWith(p, "invalid_input") => pc[p] \in {"idle", "validate"}
        /\ AttemptEndsWith(p, "needs_clarification") => pc[p] = "match" ]_vars

\* an attempt has had its validator answer isValid=true and its resolver a
\* non-actionable answer, and now awaits its analysis call
C20_Witness ==
  /\ last.op = "generate"
  /\ last.stage = "match"
  /\ last.ambiguity # Null
  /\ last.response = Null
  /\ pc[last.p] = "analysis"

\* every candidate up to b fails, when called, with one of the service's
\* model-not-found errors
AllNotFoundUpTo(b) ==
  \A j \in 1..b :
    /\ ad.plan[j].t = "throws"
    /\ ad.plan[j].error \in ModelNotFoundErrors

\* candidate e is the first that fails with an error other than
\* model-not-found, no candidate before it having answered
FirstOtherError(e) ==
  /\ e \in DOMAIN ad.plan
  /\ ad.plan[e].t = "throws"
  /\ ad.plan[e].error \in OtherErrors
  /\ AllNotFoundUpTo(e - 1)

\* C21: in one adapter call, the first candidate that fails with an error
\* other than model-not-found makes the adapter raise that same error at once
\* with no later candidate invoked; if every candidate fails with
\* model-not-found, the adapter raises the error of the last candidate in the
\* list.
C21_OtherErrorAbortsLastErrorSurfaces ==
  ad # Null =>
    LET candidates == MODEL_CANDIDATES(ad.geminiModel)
    IN  /\ \A e \in 1..Len(candidates) :
             FirstOtherError(e) =>
               /\ Len(ad.calls) <= e
               /\ ad.result # Null =>
                    /\ ad.result = Some(Raised(ad.plan[e].error))
                    /\ ad.calls = SubSeq(candidates, 1, e)
        /\ (AllNotFoundUpTo(Len(candidates)) /\ ad.result # Null) =>
             /\ ad.result = Some(Raised(ad.plan[Len(candidates)].error))
             /\ ad.calls = candidates

\* the third candidate failed with an error without a message after two
\* model-not-found errors; the adapter raised it although the fourth candidate
\* would have answered
C21_Witness ==
  /\ ad # Null
  /\ FirstOtherError(3)
  /\ ad.plan[3].error.message = Null
  /\ ad.plan[4].t = "ok"
  /\ ad.result = Some(Raised(ad.plan[3].error))
  /\ Len(ad.calls) = 3

\* the entries invoked so far are the first entries of the candidate list, each
\* once and in list order, the last of them being the one awaited
InvokedInListOrder ==
  ad # Null =>
    LET candidates == MODEL_CANDIDATES(ad.geminiModel)
    IN  /\ Len(ad.calls) <= Len(candidates)
        /\ ad.calls = SubSeq(candidates, 1, Len(ad.calls))
        /\ ad.i = Len(ad.calls)

\* a step of a call that has begun ends the call or invokes exactly one more
\* entry, and a call that has ended takes no step
CallAdvances ==
  (ad # Null /\ ad' # ad /\ ad.i >= 1) =>
    /\ ad.result = Null
    /\ \/ ad'.result # Null /\ ad'.calls = ad.calls
       \/ ad'.result = Null /\ Len(ad'.calls) = Len(ad.calls) + 1

\* handler p leaves every stage it awaited in the step in which the adapter
\* call of that stage ends, whether the call failed or not, and moves only
\* forward through the three stages
StageRunsOnce(p) ==
  /\ pc'[p] # pc[p] => << pc[p], pc'[p] >> \in StageMoves
  /\ (last' # last /\ last'.op = "generate" /\ last'.p = p) =>
       /\ pc[p] = last'.stage
       /\ pc'[p] # pc[p]

\* C22: each adapter call terminates after at most one invocation per entry
\* of the candidate list, taken in list order, and never invokes the same
\* entry twice; consequently one processing attempt of a record makes at most
\* three adapter calls (one per stage) and no stage is re-run after it failed.
C22_OneInvocationPerEntryOneCallPerStage ==
  /\ []InvokedInListOrder
  /\ [][CallAdvances]_vars
  /\ [][\A p \in Procs : StageRunsOnce(p)]_vars

\* a call over five entries, the configured model being one of the built-in
\* identifiers, has invoked every entry once and ended
C22_Witness ==
  /\ ad # Null
  /\ ad.geminiModel = Some("gemini-2.0-flash")
  /\ ad.calls = MODEL_CANDIDATES(ad.geminiModel)
  /\ Len(ad.calls) = 5
  /\ ad.result # Null

\* the last step was a lookup answered from one of the two tiers
CacheHit ==
  /\ clast # Null
  /\ clast.op = "lookup"
  /\ clast.tier \in {"memory", "persistent"}

\* C23: at every moment of a process's lifetime, a cache lookup (validation,
\* ambiguity or analysis) returns a cached value only if now - savedAt <= TTL
\* for that entry; an entry that was within the TTL when the persisted tier
\* was loaded, or that was written during the process, stops being returned
\* once its age exceeds the TTL.
C23_HitsAreWithinTtl ==
  CacheHit =>
    /\ clast.key[1] \in DOMAIN persistent
    /\ persistent[clast.key[1]].savedAt # Null
    /\ TimeLeq(AgeAt(persistent[clast.key[1]], clast.at), CACHE_TTL_MS(client.setting))

\* the last step wrote a value to the cache: an operation ended after its call
\* of the generation service, or the validation was answered locally
CacheWrite ==
  /\ clast # Null
  /\ \/ clast.op = "finish"
     \/ clast.op = "lookup" /\ clast.tier = "local"

\* every key of the in-memory tier is in the persisted-tier map with an equal
\* value
MemoryWithinPersistent ==
  \A k \in DOMAIN memory :
    /\ k \in DOMAIN persistent
    /\ persistent[k].value = memory[k]

\* C24: after every cache write for a key, the in-memory tier and the
\* persisted-tier map both hold the same value for that key, and (when
\* storage is writable) the stored snapshot for that result kind equals the
\* whole persisted-tier map at that moment, not only the written key; as an
\* invariant, every key present in the in-memory tier is also present in the
\* persisted-tier map with an equal value.
C24_TiersWrittenTogether ==
  /\ MemoryWithinPersistent
  /\ CacheWrite =>
       LET k == clast.key[1]
       IN  /\ k \in DOMAIN memory
           /\ k \in DOMAIN persistent
           /\ memory[k] = clast.returned[1]
           /\ persistent[k] = PersistentEntry(clast.returned[1], Some(clast.at))
           /\ (HasStorage /\ ~clast.saveFailed) => storage = Json(persistent)

\* a write to a writable storage while the persisted-tier map holds another
\* key as well
C24_Witness ==
  /\ CacheWrite
  /\ clast.op = "finish"
  /\ HasStorage
  /\ ~clast.saveFailed
  /\ Cardinality(DOMAIN persistent) >= 2
  /\ storage = Json(persistent)
  /\ DOMAIN memory # DOMAIN persistent

\* this step is a lookup of one of the cached operations
LookupStep == clast' # clast /\ clast'.op = "lookup"

\* C25: a cache lookup consults the in-memory tier first and the persisted
\* tier only on an in-memory miss; a hit in either tier returns the cached
\* value without any call to the generation service, and after a
\* persisted-tier hit the in-memory tier holds that key with the same value.
C25_MemoryFirstThenPersisted ==
  [][ LookupStep =>
        LET k == clast'.key[1]
        IN  /\ k \in DOMAIN memory =>
                 /\ clast'.tier = "memory"
                 /\ clast'.returned = Some(memory[k])
                 /\ UNCHANGED << memory, persistent, storage, inflight >>
            /\ (k \notin DOMAIN memory /\ k \in DOMAIN persistent) =>
                 /\ clast'.tier = "persistent"
                 /\ clast'.returned = Some(persistent[k].value)
                 /\ k \in DOMAIN memory'
                 /\ memory'[k] = persistent[k].value
                 /\ UNCHANGED << persistent, storage, inflight >>
            /\ clast'.tier \in {"miss", "local"} =>
                 k \notin DOMAIN memory /\ k \notin DOMAIN persistent
            /\ inflight' # inflight => clast'.tier = "miss" ]_vars

\* a lookup answered from the in-memory tier for a key that the load had
\* brought in from the bucket: the persisted-tier hit before it warmed the
\* in-memory tier
C25_Witness ==
  /\ CacheHit
  /\ clast.tier = "memory"
  /\ inflight = {}
  /\ clast.key[1] \in DOMAIN persistent
  /\ persistent[clast.key[1]].savedAt # Null
  /\ ~TimeLeq(client.loadedAt[1], persistent[clast.key[1]].savedAt[1])
  /\ clast.returned = Some(persistent[clast.key[1]].value)

\* the last step ended an ambiguity check whose call of the generation
\* service let an exception into the catch branch of getCityMatches
ResolverCallFailed ==
  /\ clast # Null
  /\ client.kind = "matches"
  /\ clast.op = "finish"
  /\ clast.tier = "failed"

\* C26: when the ambiguity resolver's external call fails for a key, nothing
\* is cached for that key in either tier, so the next ambiguity check for the
\* same key calls the external service again (no negative caching on the
\* exception path).
C26_ResolverFailureNotCached ==
  /\ []( ResolverCallFailed =>
           /\ clast.key[1] \notin DOMAIN memory
           /\ clast.key[1] \notin DOMAIN persistent )
  /\ [][ (ResolverCallFailed /\ LookupStep /\ clast'.key = clast.key) =>
           clast'.tier = "miss" ]_vars

\* the request carries the deterministic sampling configuration
DeterministicSampling(request) ==
  /\ request.temperature = Some(0)
  /\ request.topP = Some(0)
  /\ request.topK = Some(1)
  /\ request.candidateCount = Some(1)
  /\ request.seed # Null

\* the seed of the request is the one every request of the same call site
\* carries for the same normalized key, whatever the model and the letter
\* case or the surrounding white space of the submitted text
SeedOfPurposeAndKey(request) ==
  \A model \in ModelsOf(rq.site), c \in RequestCities, x \in RequestSectors :
    getInputKey(Some(c), Some(x)) = getInputKey(Some(rq.city), Some(rq.sector)) =>
      RequestOf(rq.site, model, normalize(Some(c)), normalize(Some(x))).seed = request.seed

\* C27: every call made to the generation service carries temperature=0,
\* top-p=0, top-k=1, a single candidate and a seed that is a function of only
\* the purpose and the normalized key: two calls for the same purpose and the
\* same normalized key carry the same seed whatever the model candidate, the
\* letter case of the submitted text, or the number and order of earlier
\* calls.
C27_DeterministicRequests ==
  rq # Null =>
    \A i \in DOMAIN rq.sent :
      /\ DeterministicSampling(rq.sent[i])
      /\ SeedOfPurposeAndKey(rq.sent[i])
      /\ rq.sent[i].seed = rq.sent[1].seed

\* the fields of a record agree with its status
CoherentRecord(rec) ==
  /\ rec.status \in {"pending"} \cup TerminalStatuses
  /\ rec.status = "pending" => rec.result = Null /\ rec.error = Null
  /\ rec.status = "invalid_input" => rec.result = Null /\ rec.error # Null
  /\ rec.status = "needs_clarification" =>
       rec.result = Null /\ Len(rec.suggestedCities) > 1
  /\ rec.status = "done" => rec.result # Null /\ rec.suggestedCities = << >>

\* C28: in every reachable state each record's fields are coherent with its
\* status: pending implies result=null and error=null; invalid_input implies
\* result=null and error non-null; needs_clarification implies result=null
\* and suggestedCities has more than one entry; done implies result non-null
\* and suggestedCities empty; and every id in the key-to-id map has a record
\* in the store whose id field equals that id.
C28_RecordsCoherent ==
  /\ \A id \in DOMAIN store : CoherentRecord(store[id])
  /\ \A k \in DOMAIN inputKeyMap :
       /\ inputKeyMap[k] \in DOMAIN store
       /\ store[inputKeyMap[k]].id = inputKeyMap[k]

\* the store holds a record that needs clarification next to one that was
\* rejected, both reachable from the key-to-id map
C28_Witness ==
  /\ \E id \in DOMAIN store : store[id].status = "needs_clarification"
  /\ \E id \in DOMAIN store : store[id].status = "invalid_input"
  /\ Cardinality(DOMAIN inputKeyMap) = 2

\* the labels the normalizer can return
NormalizerLabels == {"High Growth", "Good", "Emerging"}

\* C29: every overallScore produced by the normalizer, server or client, lies
\* in [0, 85] (0..850 tenths), the label it returns is the one computeLabel
\* gives for that score, and it is one of High Growth, Good and Emerging,
\* never Excellent.
C29_OverallAtMost85NeverExcellent ==
  \A o \in {nz.out, nz.again} :
    o # Null =>
      /\ o[1].overallScore \in 0..850
      /\ o[1].label = computeLabel(o[1].overallScore)
      /\ o[1].label \in NormalizerLabels
      /\ o[1].label # "Excellent"

\* a raw record whose five sub-scores are all at or above 100 and whose own
\* overallScore is 99 has been normalized to 85.0, labelled High Growth
C29_Witness ==
  /\ nz.out # Null
  /\ nz.raw.overallScore = Some(9900)
  /\ \A f \in DOMAIN nz.raw.breakdown :
       nz.raw.breakdown[f] # Null /\ nz.raw.breakdown[f][1] >= 10000
  /\ nz.out[1].overallScore = 850
  /\ nz.out[1].label = "High Growth"

====
